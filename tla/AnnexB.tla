--------------------------------- MODULE AnnexB ---------------------------------
(***************************************************************************)
(* annexb::parameter_sets(): the scan of an encoder's frame for the first    *)
(* parameter set of each kind, one step per NAL unit. A frame is made of     *)
(* whole units, as the encoder delivers it; its bytes are numbers and its    *)
(* indices start at 0, as in the code.                                      *)
(***************************************************************************)
EXTENDS Integers, Sequences

CONSTANTS
    MaxUnits,   \* units in a frame
    Payloads    \* what follows the header byte of a unit

\* An encoder escapes payloads: no two zeros are followed by 0 or 1, and the
\* last byte is not zero.
ASSUME AnnexBAssumption ==
    /\ MaxUnits \in Nat /\ Payloads \subseteq Seq(Nat)
    /\ \A p \in Payloads :
        /\ p # <<>> /\ p[Len(p)] # 0
        /\ \A i \in 1..Len(p) - 2 : ~(p[i] = 0 /\ p[i+1] = 0 /\ p[i+2] \in {0, 1})

VARIABLES
    h265,    \* the codec
    units,   \* the frame: start code, header and payload of each unit
    stream,  \* its bytes
    pos,     \* where the search goes on
    data,    \* ParameterSets::data
    found,   \* ParameterSets::found, as the set of its bits
    done     \* the function has returned

annexBVars == <<h265, units, stream, pos, data, found, done>>

-----------------------------------------------------------------------------
(* The frame *)

StartCodes == {<<0, 0, 1>>, <<0, 0, 0, 1>>}
\* SPS of two priorities, PPS, IDR and SEI; and VPS, SPS, PPS, IDR.
Headers(is265) == IF is265 THEN {64, 66, 68, 38} ELSE {103, 39, 104, 101, 6}

Bytes(u) == u.prefix \o <<u.header>> \o u.payload
\* The bytes of the units whose numbers are kept, up to each unit.
Pieces(us, keep) ==
    LET all[i \in 0..Len(us)] ==
            IF i = 0 THEN <<>> ELSE all[i - 1] \o (IF i \in keep THEN Bytes(us[i]) ELSE <<>>)
    IN  all
Stream(us, keep) == Pieces(us, keep)[Len(us)]

AnnexBInitWith(is265, us) ==
    /\ h265 = is265 /\ units = us /\ stream = Stream(us, 1..Len(us))
    /\ pos = 0 /\ data = <<>> /\ found = {} /\ done = FALSE
AnnexBInit ==
    \E is265 \in BOOLEAN, n \in 0..MaxUnits :
        \E us \in [1..n -> [prefix : StartCodes, header : Headers(is265), payload : Payloads]] :
            AnnexBInitWith(is265, us)

-----------------------------------------------------------------------------
(* The scan *)

StreamSize == Len(stream)
At(i) == stream[i + 1]
Zeros(i, n) == \A j \in i..i + n - 1 : At(j) = 0
Least(s) == CHOOSE i \in s : \A j \in s : i <= j

Short(i) == i + 3 < StreamSize /\ Zeros(i, 2) /\ At(i + 2) = 1
Long(i) == i + 4 < StreamSize /\ Zeros(i, 3) /\ At(i + 3) = 1
Begins == {i \in pos..StreamSize - 4 : Short(i) \/ Long(i)}
Header(start) == start + (IF Short(start) THEN 3 ELSE 4)

\* Mutant: the end is looked for behind the header, and only short start codes end it.
EndShortCodes(header) == Least({i \in header..StreamSize - 4 : Short(i)} \cup {StreamSize})
\* The next start code, of either length, ends the unit.
End(header) ==
    Least({i \in header..StreamSize - 4 :
             Zeros(i, 2) /\ (At(i + 2) = 1 \/ (At(i + 2) = 0 /\ At(i + 3) = 1))}
          \cup {StreamSize})

\* H.264 has its type in the low five bits of the header, H.265 in bits 1 to 6.
Type(header) == IF h265 THEN (header \div 2) % 64 ELSE header % 32
SetTypes == IF h265 THEN <<32, 33, 34>> ELSE <<7, 8>>
SetFlag(header) == {b \in DOMAIN SetTypes : SetTypes[b] = Type(header)}

Kept(start, end, flag) ==
    IF flag # {} /\ flag \cap found = {}
    THEN /\ data' = data \o SubSeq(stream, start + 1, end)
         /\ found' = found \cup flag
    ELSE UNCHANGED <<data, found>>

\* One round of the outer loop: find a unit, keep it when it is the first of its
\* kind, go on where it ends.
Scan ==
    /\ ~done /\ pos + 4 < StreamSize
    /\ LET begins == Begins
           start == Least(begins)
           header == Header(start)
           end == End(header)
       IN  /\ begins # {}
           /\ Kept(start, end, SetFlag(At(header)))
           /\ pos' = end
    /\ UNCHANGED <<h265, units, stream, done>>

ScanEnds ==
    /\ ~done
    /\ pos + 4 >= StreamSize \/ Begins = {}
    /\ done' = TRUE
    /\ UNCHANGED <<h265, units, stream, pos, data, found>>

AnnexBNext == Scan \/ ScanEnds

AnnexBSpec == AnnexBInit /\ [][AnnexBNext]_annexBVars

\* ParameterSets::complete().
Complete == DOMAIN SetTypes \subseteq found

-----------------------------------------------------------------------------
(* Properties *)

\* Which units are parameter sets, by the names the standards give the headers.
Kinds == IF h265 THEN << {64}, {66}, {68} >> ELSE << {103, 39}, {104} >>
FirstOfKind(i) ==
    \E k \in DOMAIN Kinds :
        units[i].header \in Kinds[k] /\ \A j \in 1..i - 1 : units[j].header \notin Kinds[k]
Wanted == Stream(units, {i \in 1..Len(units) : FirstOfKind(i)})

\* The header of the stream (FFmpeg's extradata) is the first parameter set of
\* each kind, whole, in the frame's order and byte for byte: no byte of the start
\* code that follows, no second set, no slice.
ExtractsFirstSets == done => data = Wanted

\* A frame is taken for complete exactly when it has a set of every kind, so the
\* endpoint never writes a header from half of them nor waits for one it has.
CompleteIffAllKinds ==
    done => (Complete <=> \A k \in DOMAIN Kinds :
                            \E i \in 1..Len(units) : units[i].header \in Kinds[k])

\* The scan ends, whatever the units: every round goes on behind the last one.
Advances == [][pos' > pos \/ done']_annexBVars

\* parameter_sets() as its callers rely on it: it ends, finds the sets, and
\* says when they are complete.
FindsTheSets == [](ExtractsFirstSets /\ CompleteIffAllKinds) /\ Advances
=============================================================================
