-------------------------------- MODULE MCProgram --------------------------------
(***************************************************************************)
(* Model checking of the parts in which nothing has to happen in the end:    *)
(* what settings pass through, from the file and its numbers (ConfigNumber)  *)
(* over validation and start (Configuration), the table of parameters        *)
(* (Dictionary) and its file (ParamStore) to the image processor             *)
(* (IspSettings); and what a running program keeps: its SDK objects and      *)
(* threads (MediaLifecycle), the pictures it draws (Canvas), the frames it   *)
(* scans (AnnexB), its log lines (Elog) and log files (LogFile,              *)
(* RecoveryLog).  They share no variable, so a behaviour is one of one part, *)
(* while the others stay in an initial state.                               *)
(***************************************************************************)
EXTENDS ConfigNumber, Configuration, Dictionary, ParamStore, IspSettings,
        MediaLifecycle, Canvas, AnnexB, Elog, LogFile, RecoveryLog

CONSTANT Parts   \* the parts that are checked

VARIABLE part

programVars ==
    <<part, numberVars, configVars, dictionaryVars, paramVars, ispVars,
      mediaVars, canvasVars, annexBVars, elogVars, logVars, recoveryVars>>

-----------------------------------------------------------------------------
(* ConfigNumber: texts of up to four characters, a long that ends at 127 *)

MinusTwenty == -20

-----------------------------------------------------------------------------
(* Configuration: files that differ in URLs and switches, and files that      *)
(* differ in the rest                                                        *)

U(scheme, host, port, path) == [scheme |-> scheme, host |-> host, port |-> port, path |-> path]
RtspUrls ==
    {Missing, U("rtsp", "lan", NoPort, "main"), U("rtsp", "lan", 8554, "ai"),
     U("rtsp", "other", NoPort, "ai"), U("rtsp", "name", 8554, "main"), U("rtsp", "lan", NoPort, "")}
RtmpUrls ==
    {Missing, U("rtmp", "lan", NoPort, "main"), U("rtmp", "lan", 8554, "ai"),
     U("rtmp", "other", NoPort, "ai"), U("rtmp", "other", 8554, "main"), U("rtmp", "lan", BadPort, "main"),
     U("rtsp", "lan", NoPort, "ai")}
UrlTables ==
    {[p \in Protocols |-> IF p = "rtsp" THEN r ELSE t] :
        r \in [Streams -> RtspUrls], t \in [Streams -> RtmpUrls]}
GoodUrls ==
    [p \in Protocols |-> [s \in Streams |-> U(p, "lan", IF s = "ai" THEN 8554 ELSE NoPort, s)]]

F(num, den) == [num |-> num, den |-> den]
Full == [src |-> F(25, 1), dst |-> F(25, 1)]
Ratios ==
    {[src |-> s, dst |-> d] : s \in {F(25, 1), F(60, 2)},
                              d \in {F(25, 1), F(25, 2), F(30, 2), F(30, 1), F(1, 2)}}

Config(on, failover, npu, url, codec, pixels, iva, rate, ispRate) ==
    [on |-> on, failover |-> failover, npu |-> npu, url |-> url, codec |-> codec,
     size |-> pixels, iva |-> iva, rate |-> rate, isp |-> ispRate]
Each(v) == [s \in Streams |-> v]

ManyConfigs ==
    {Config(on, failover, FALSE, url, Each("H.264"), Each(640), 640, Each(Full), 25) :
        on \in SUBSET Protocols, failover \in BOOLEAN, url \in UrlTables}
    \cup {Config(on, FALSE, npu, GoodUrls, codec, pixels, iva, Each(Full), 25) :
            on \in SUBSET Protocols, npu \in BOOLEAN, codec \in [Streams -> {"H.264", "H.265", "MJPEG"}],
            pixels \in [Streams -> {640, 641}], iva \in {640, 320}}
    \cup {Config(Protocols, TRUE, FALSE, GoodUrls, Each("H.264"), Each(640), 640, rate, ispRate) :
            rate \in [Streams -> Ratios], ispRate \in {25, 30}}

-----------------------------------------------------------------------------
(* Dictionary: three keys, two of which collide, and a table that starts with *)
(* two slots and may double once                                             *)

ThreeKeys == {"a", "b", "c"}
Colliding == [k \in ThreeKeys |-> IF k = "c" THEN 2 ELSE 1]
OneValue == {"x"}
AllFail == {"grow", "key", "val"}

-----------------------------------------------------------------------------
(* ParamStore: files with comments, quotes, continuations, errors and a line  *)
(* that is too long; values of one to three characters                       *)

LogSection == Line("section", <<"log">>, <<>>)
NetSection == Line("section", <<"net">>, <<>>)
Level(t) == Line("entry", <<"level">>, t)
UrlLine(t) == Line("entry", <<"url">>, t)
Note(t) == Line("comment", <<>>, t)

WholeFile ==
    <<Note(<<"a">>), LogSection, Level(<<" ", "a", " ", ";", "a">>), Blank,
      NetSection, UrlLine(<<"'", "a", "=", "'", "#">>)>>
Folded ==
    <<LogSection, Level(<<"a", "\\">>), Blank, NetSection, UrlLine(<<"a", "a">>),
      LogSection, Level(<<"a", "\"", "a">>)>>
Broken == <<LogSection, Level(<<"a">>), Line("syntax", <<>>, <<>>)>>
CutOff == <<LogSection, Level(<<"a", "\\">>), Note(<<"\\">>)>>
TooLong == <<LogSection, Line("long", <<"level">>, <<"L">>)>>

StartFiles == {WholeFile, Folded, Broken, CutOff, TooLong}
Settable == {<<"net", "url">>}
PlainTexts == {<<"a", " ", "a">>, <<"\"">>, <<"a", "\"", "=">>}

Quoted == <<NetSection, UrlLine(<<"\"", " ", "a", ";", "\"">>)>>
OddFiles == {WholeFile, Quoted}
OddTexts == {<<"a", "#">>, <<"a", "\\">>, <<"L">>}

\* The hypothesis under which DumpLoads is a theorem, in the run that checks it.
ASSUME PlainAssumption == Texts = PlainTexts => PlainSettings

-----------------------------------------------------------------------------
(* IspSettings: each behaviour varies keys that depend on each other, and     *)
(* leaves the others at their defaults                                       *)

BothScenarios == {"normal", "custom1"}
Dependent ==
    {[hdr |-> {"close", "HDR2"}, hlc |-> {"close", "open"}, hlc_level |-> {"0", "2"}],
     [white_blance_style |-> {"autoWhiteBalance", "manualWhiteBalance"},
      white_blance_red |-> {"0", "60"}],
     [noise_reduce_mode |-> {"close", "2dnr", "3dnr"}, spatial_denoise_level |-> {"20"},
      temporal_denoise_level |-> {"20"}],
     [dehaze |-> {"close", "open"}, dehaze_level |-> {"5"}, contrast |-> {"50", "60"},
      blc_region |-> {"close", "open"}, blc_strength |-> {"3"}],
     [exposure_mode |-> {"auto", "manual"}, gain_mode |-> {"auto", "manual"},
      exposure_gain |-> {"1", "5"}],
     [sharpness |-> {"50", "60"}, saturation |-> {"50", "60"}]}
\* Writes that enable or disturb another one, and the one whose setter gives up.
SomeRefused ==
    {"hlc", "white_blance_style", "blc_region", "exposure_gain", "sharpness", "saturation",
     "spatial_denoise_level"}

-----------------------------------------------------------------------------
(* MediaLifecycle: all switches, a failure at any call; create_rknn_list does *)
(* not report one                                                            *)

AllOptions == {"aiq", "npu", "failover", "fps", "audio", "vqe"}
AllCalls == {Plan(AllOptions)[i].call : i \in DOMAIN Plan(AllOptions)} \ {"list"}

-----------------------------------------------------------------------------
(* Canvas: a picture of 24 by 14 pixels, boxes at every alignment, in the      *)
(* middle and over the edges, and a few glyphs                               *)

\* The end of a box may lie beyond the picture.
Spans ==
    {<<0, 10000>>, <<0, 3000>>, <<800, 5000>>, <<3900, 8800>>, <<3500, 10700>>, <<9000, 10400>>}
Boxes ==
    {[left |-> h[1], right |-> h[2], top |-> v[1], bottom |-> v[2],
      color |-> IF h[1] < 2000 THEN "red" ELSE "blue"] :
        h \in Spans, v \in {<<0, 10000>>, <<0, 4000>>, <<2200, 9000>>, <<4000, 11500>>}}

\* A glyph with all dots, and the letter F of the source.
Font ==
    [block |-> (0..4) \X (0..6),
     F |-> {<<x, y>> \in (0..4) \X (0..6) : x = 0 \/ y = 0 \/ (y = 3 /\ x < 4)}]
SomeWritings == {<<"F">>, <<"block", "F", "block", "F">>, <<" ", "block">>, <<"F", "F">>}

-----------------------------------------------------------------------------
(* AnnexB: frames of up to three units, two of them with an escaped payload;  *)
(* Elog: levels none and all; LogFile: files of three bytes and lines of one  *)
(* to five; RecoveryLog: the sizes of the script, where the prefix is 19      *)
(* bytes of date, 12 of mark and blanks, and the newline, and an event whose  *)
(* text has to be cut                                                         *)

ShortAndEscaped == {<<128>>, <<0, 0, 3, 1>>}
TwoLevels == {0, 5}
LineSizes == {1, 2, 5}
LongText == {8500}

-----------------------------------------------------------------------------
(* The parts together *)

\* An initial state of every part; the choices are those of the one that moves.
Plain == Config(Protocols, FALSE, FALSE, GoodUrls, Each("H.264"), Each(640), 640, Each(Full), 25)
Defaults == [i \in 0..1 |-> [k \in {} |-> Default[k]]]

ProgramInit ==
    /\ part \in Parts
    /\ IF part = "number" THEN NumberInit ELSE NumberInitWith(<<>>)
    /\ IF part = "config" THEN ConfigInit ELSE ConfigInitWith(Plain)
    /\ DictionaryInit
    /\ IF part = "param" THEN ParamInit ELSE ParamInitWith(<<>>)
    /\ IF part = "isp" THEN IspInit ELSE IspInitWith(Defaults[0], Defaults)
    /\ IF part = "media" THEN MediaInit ELSE MediaInitWith({})
    /\ CanvasInit
    /\ IF part = "annexB" THEN AnnexBInit ELSE AnnexBInitWith(FALSE, <<>>)
    /\ ElogInit
    /\ IF part = "log" THEN LogInit ELSE LogInitWith(NoFiles)
    /\ RecoveryInit

ProgramNext ==
    /\ IF part = "number" THEN NumberNext ELSE UNCHANGED numberVars
    /\ IF part = "config" THEN ConfigNext ELSE UNCHANGED configVars
    /\ IF part = "dictionary" THEN DictionaryNext ELSE UNCHANGED dictionaryVars
    /\ IF part = "param" THEN ParamNext ELSE UNCHANGED paramVars
    /\ IF part = "isp" THEN IspNext ELSE UNCHANGED ispVars
    /\ IF part = "media" THEN MediaNext ELSE UNCHANGED mediaVars
    /\ IF part = "canvas" THEN CanvasNext ELSE UNCHANGED canvasVars
    /\ IF part = "annexB" THEN AnnexBNext ELSE UNCHANGED annexBVars
    /\ IF part = "elog" THEN ElogNext ELSE UNCHANGED elogVars
    /\ IF part = "log" THEN LogNext ELSE UNCHANGED logVars
    /\ IF part = "recovery" THEN RecoveryNext ELSE UNCHANGED recoveryVars
    /\ UNCHANGED part

ProgramSpec == ProgramInit /\ [][ProgramNext]_programVars

AllParts ==
    {"number", "config", "dictionary", "param", "isp",
     "media", "canvas", "annexB", "elog", "log", "recovery"}
FileOnly == {"param"}
TableOnly == {"dictionary"}
MediaOnly == {"media"}
=============================================================================
