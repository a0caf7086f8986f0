------------------------------- MODULE ParamStore -------------------------------
(***************************************************************************)
(* common/param/param.c: the process-wide parameter dictionary, its file,    *)
(* and the explicit save through a temporary file, with a process or power   *)
(* failure between any two steps. g_param_mutex is held for the whole of     *)
(* every call, so only failures come between the steps of a save.            *)
(***************************************************************************)
EXTENDS IniFile

CONSTANTS
    Files,     \* files the program may be started with, sequences of lines
    Names,     \* names set at run time
    Texts,     \* values they are set to
    MaxLosses  \* bound on crashes and power cuts

ASSUME ParamAssumption == MaxLosses \in Nat /\ \A file \in Files : IsSequence(file)

VARIABLES
    loaded,       \* g_ini_d_ is not NULL
    dict,         \* its entries
    disk,         \* the file as programs see it
    safe,         \* the file a power cut leaves
    save,         \* rk_param_save: "idle", "write", "sync", "rename", "directory"
    temp,         \* contents of the temporary file
    synced,       \* they were fsync()ed
    litter,       \* temporary files left behind
    losses,
    before,       \* files a power cut could leave when the last save began
    after,        \* and what it was to become
    kept,         \* entries a load may find: those of the last save that answered 0
                  \* or of a file written by hand, and of failed saves since then
    result        \* of the last save: "none", "saved", "failed"

paramVars == <<loaded, dict, disk, safe, save, temp, synced, litter, losses, before, after, kept, result>>
saveVars == <<save, temp, synced, litter, before, after, kept, result>>

ParamTypeOK ==
    /\ loaded \in BOOLEAN
    /\ save \in {"idle", "write", "sync", "rename", "directory"}
    /\ synced \in BOOLEAN
    /\ {litter, losses} \subseteq 0..MaxLosses
    /\ result \in {"none", "saved", "failed"}
    /\ ~loaded => dict = <<>> /\ save = "idle"

Entries(d) == {d[i] : i \in DOMAIN d}
EntriesOf(file) == {Entries(Load(file).dict)}

ParamInitWith(file) ==
    /\ loaded = FALSE /\ dict = <<>>
    /\ disk = file /\ safe = file
    /\ save = "idle" /\ temp = <<>> /\ synced = FALSE /\ litter = 0 /\ losses = 0
    /\ before = {file} /\ after = file /\ kept = EntriesOf(file) /\ result = "none"
ParamInit == \E file \in Files : ParamInitWith(file)

-----------------------------------------------------------------------------

InitParam ==
    /\ ~loaded
    /\ loaded' = Load(disk).ok /\ dict' = Load(disk).dict
    /\ UNCHANGED <<disk, safe, losses, saveVars>>

Deinit ==
    /\ loaded /\ save = "idle"
    /\ loaded' = FALSE /\ dict' = <<>>
    /\ UNCHANGED <<disk, safe, losses, saveVars>>

SetString(name, text) ==
    /\ loaded /\ save = "idle"
    /\ dict' = Put(dict, Entry(name, text))
    /\ UNCHANGED <<loaded, disk, safe, losses, saveVars>>

\* The new dictionary replaces the old one only when the file was parsed.
Reload ==
    /\ loaded /\ save = "idle"
    /\ dict' = IF Load(disk).ok THEN Load(disk).dict ELSE dict
    /\ UNCHANGED <<loaded, disk, safe, losses, saveVars>>

\* lstat(), open() of the directory, mkstemp(), fchmod(), fdopen().
SaveBegin ==
    /\ loaded /\ save = "idle"
    /\ save' = "write" /\ temp' = <<>> /\ synced' = FALSE
    /\ before' = {disk, safe} /\ after' = Dump(dict) /\ result' = "none"
    /\ kept' = (kept \cap (EntriesOf(disk) \cup EntriesOf(safe))) \cup {Entries(dict)}
    /\ UNCHANGED <<loaded, dict, disk, safe, litter, losses>>

SaveWrite ==
    /\ save = "write"
    /\ temp' = Dump(dict) /\ save' = "sync"
    /\ UNCHANGED <<loaded, dict, disk, safe, synced, litter, losses, before, after, kept, result>>

\* Mutant: the temporary file is renamed before its data are on the medium.
SaveUnsynced ==
    /\ save = "sync"
    /\ save' = "rename"
    /\ UNCHANGED <<loaded, dict, disk, safe, temp, synced, litter, losses, before, after, kept, result>>

\* fflush(), fsync(), fclose().
SaveSync ==
    /\ save = "sync"
    /\ synced' = TRUE /\ save' = "rename"
    /\ UNCHANGED <<loaded, dict, disk, safe, temp, litter, losses, before, after, kept, result>>

SaveRename ==
    /\ save = "rename"
    /\ disk' = temp /\ save' = "directory"
    /\ UNCHANGED <<loaded, dict, safe, temp, synced, litter, losses, before, after, kept, result>>

\* Mutant: the directory is not synced.
DirectoryNotSynced == save = "directory" /\ save' = "idle" /\ result' = "saved"
    /\ kept' = {Entries(dict)} /\ temp' = <<>> /\ synced' = FALSE
    /\ UNCHANGED <<loaded, dict, disk, safe, litter, losses, before, after>>

SaveSyncDirectory ==
    /\ save = "directory"
    /\ safe' = disk /\ result' = "saved" /\ kept' = {Entries(dict)}
    /\ save' = "idle" /\ temp' = <<>> /\ synced' = FALSE
    /\ UNCHANGED <<loaded, dict, disk, litter, losses, before, after>>

\* Any of these calls fails: the temporary file, when there is one, goes.
SaveFails ==
    /\ save # "idle"
    /\ save' = "idle" /\ result' = "failed"
    /\ temp' = <<>> /\ synced' = FALSE
    /\ UNCHANGED <<loaded, dict, disk, safe, litter, losses, before, after, kept>>

-----------------------------------------------------------------------------
(* Failures *)

Down ==
    /\ losses < MaxLosses /\ losses' = losses + 1
    /\ loaded' = FALSE /\ dict' = <<>>
    /\ save' = "idle" /\ temp' = <<>> /\ synced' = FALSE
    /\ litter' = IF save \in {"write", "sync", "rename"} THEN litter + 1 ELSE litter
    /\ result' = IF save = "idle" THEN result ELSE "failed"
    /\ UNCHANGED <<before, after, kept>>

Killed == loaded /\ Down /\ UNCHANGED <<disk, safe>>

\* The rename may or may not have reached the medium; data that were not
\* fsync()ed may be there in part.
PowerCut ==
    /\ Down
    /\ \/ disk' = safe
       \/ /\ disk # safe
          /\ IF save = "directory" /\ ~synced
             THEN \E m \in 0..Len(disk) : disk' = SubSeq(disk, 1, m)
             ELSE disk' = disk
    /\ safe' = disk'

\* The operator writes another file (README, "scp").
Edit(file) ==
    /\ save = "idle" /\ disk # file
    /\ disk' = file /\ safe' = file
    /\ before' = {file} /\ after' = file /\ kept' = EntriesOf(file) /\ result' = "none"
    /\ UNCHANGED <<loaded, dict, save, temp, synced, litter, losses>>

ParamNext ==
    \/ \E file \in Files : Edit(file)
    \/ InitParam \/ Deinit \/ Reload
    \/ \E name \in Names, text \in Texts : SetString(name, text)
    \/ SaveBegin \/ SaveWrite \/ SaveSync \/ SaveRename \/ SaveSyncDirectory \/ SaveFails
    \/ Killed \/ PowerCut

ParamSpec == ParamInit /\ [][ParamNext]_paramVars

-----------------------------------------------------------------------------
(* Properties *)

\* The save replaces the file as a whole: whatever fails, and wherever the
\* power goes, the file is the one before the save or the complete new one.
ReplacedWhole == {disk, safe} \subseteq before \cup {after}

\* A save that answered 0 survives a power cut.
SavedIsSafe == result = "saved" => safe = after

\* Only a crash leaves a temporary file behind.
NoLitter == litter <= losses

\* "Save a dictionary to a loadable ini file" (iniparser.c): loading what was
\* dumped gives the same entries.
DumpLoads == loaded => Load(Dump(dict)).ok /\ Entries(Load(Dump(dict)).dict) = Entries(dict)

\* Where that can be expected: the values need no quotes, comment signs, spaces at
\* an end or continuations, and every key is in a section that the file has.
PlainValue(val) ==
    /\ IsSequence(val) /\ ToSet(val) \cap {";", "#", "L"} = {}
    /\ val # <<>> => val[1] # " " /\ val[Len(val)] \notin {" ", "\\"}
    /\ Len(val) > 1 => val[1] \notin Quotes
Sections(entries) == {e.name[1] : e \in {f \in entries : f = SectionEntry(<<f.name[1]>>)}}
Savable(e, sections) ==
    \/ e = SectionEntry(<<e.name[1]>>)
    \/ /\ e = Entry(e.name, e.val) /\ PlainValue(e.val)
       /\ IsSequence(e.name) /\ Len(e.name) > 1 /\ e.name[1] \in sections
PlainSettings ==
    /\ \A text \in Texts : PlainValue(text)
    /\ \A file \in Files :
        LET entries == Entries(Load(file).dict)
        IN  Load(file).ok =>
                /\ \A e \in entries : Savable(e, Sections(entries))
                /\ \A name \in Names, text \in Texts : Savable(Entry(name, text), Sections(entries))

\* What the next start or reload finds, wherever the process was killed, the power
\* went or a save failed: all parameters as they were in memory when a save began,
\* the last one if it answered 0, or as the file was written by hand.  No save
\* leaves a file behind that cannot be loaded.
StartsAsSaved ==
    \A file \in {disk, safe} :
        IF Load(file).ok THEN Entries(Load(file).dict) \in kept
        ELSE file \in before /\ result # "saved"

\* iniparser_dump_ini, rk_param_save: at every moment, also one at which the
\* power goes or a call fails, the file is a whole version, the one that was
\* promised if save answered 0, and nothing else stays behind.
FileSafe == ParamTypeOK /\ ReplacedWhole /\ SavedIsSafe /\ NoLitter
=============================================================================
