---------------------------- MODULE MediaLifecycle ----------------------------
(***************************************************************************)
(* What main() and MediaPipeline acquire, in which order, what each owner    *)
(* believes it holds, and how everything is given back when any one call     *)
(* fails or the program stops.                                             *)
(*                                                                         *)
(* The construction is a sequence of calls.  A call acquires at most one     *)
(* resource; the owner's flags may lag behind it ("know").  A failing call   *)
(* runs the clean-up of the object under construction, then those of the     *)
(* objects around it.  A resource is <<kind, id>>; a thread is released by   *)
(* joining it.                                                             *)
(***************************************************************************)
EXTENDS Naturals, Sequences

CONSTANTS
    Options,   \* INI switches that the instance varies
    FailingCalls   \* calls that may fail

VARIABLES
    cfg,    \* the switches that are on
    next,   \* index of the next call of Plan(cfg)
    held,   \* resources the system holds
    known,  \* resources whose owner's flag is set
    todo,   \* resources the clean-up still has to look at
    phase   \* "build", "up", "undo" or "down"

mediaVars == <<cfg, next, held, known, todo, phase>>

Channels == {0, 1}
Nothing == <<"nothing", 0>>
R(kind) == <<kind, 0>>

\* A call of the constructor "scope", made when the switch "opt" is on.
Call(name, scope, opt, get, know) ==
    [call |-> name, scope |-> scope, opt |-> opt, get |-> get, know |-> know]

\* The usual pattern: call, check, set the flag.
Take(scope, opt, resource) == Call(resource[1], scope, opt, resource, {resource})
Require(name, scope, opt) == Call(name, scope, opt, Nothing, {})

-----------------------------------------------------------------------------
(* Construction, in program order *)

MainSteps ==
    <<Take("main", "always", R("state")), Take("main", "always", R("log")),
      Take("main", "always", R("param")), Require("validate", "main", "always")>>

\* g_aiq_ctx is set, isp_ is not until rk_isp_init has returned 0.
IspContext == Call("sysctl_init", "isp", "aiq", R("isp_ctx"), {})
IspRun ==
    <<Require("prepare", "isp", "aiq"),
      Call("start", "isp", "aiq", R("isp"), {R("isp_ctx"), R("isp")})>>
IspSteps == <<IspContext>> \o IspRun \o <<Require("set_from_ini", "pipeline", "aiq")>>

RockivaSteps ==
    <<Take("rockiva", "npu", R("iva")), Take("rockiva", "npu", R("ba")),
      Take("rockiva", "npu", R("signal")), Take("rockiva", "npu", R("list"))>>

PublisherChecks == Require("ffmpeg_publisher_init", "publisher", "always")
ManagerSteps ==
    <<Take("publisher", "failover", R("route")), Take("publisher", "always", R("net")),
      Take("publisher", "always", <<"endpoint", 0>>),
      Take("publisher", "always", <<"endpoint", 1>>)>>

\* device_ is set when the pipe is bound, after the device was enabled.
InitDevice ==
    <<Call("enable_dev", "video", "always", R("dev"), {}),
      Call("bind_pipe", "video", "always", Nothing, {R("dev")})>>
CreateVi(id) == <<Take("video", "always", <<"vi", id>>)>>
CreateVenc(id) ==
    <<Take("video", "always", <<"venc", id>>), Require("apply_quality", "video", "always"),
      Require("start_recv", "video", "always")>>
Bind(id) == <<Take("video", "always", <<"bind", id>>)>>

CreateOverlay == <<Take("video", "npu", <<"rgn", 2>>), Take("video", "npu", <<"att", 2>>)>>

CreateFps(id) == <<Take("video", "fps", <<"rgn", id>>), Take("video", "fps", <<"att", id>>)>>
FpsSteps == CreateFps(0) \o CreateFps(1) \o <<Take("video", "fps", R("t_fps"))>>

InitializeChannels ==
    InitDevice \o CreateVi(0) \o CreateVi(1) \o CreateVenc(0) \o CreateVenc(1)
      \o Bind(0) \o Bind(1) \o CreateOverlay \o FpsSteps
StartWorkers ==
    <<Take("video", "always", <<"t_venc", 0>>), Take("video", "always", <<"t_venc", 1>>),
      Take("video", "npu", R("t_iva")), Take("video", "npu", R("t_osd"))>>

AudioInput ==
    <<Require("encode_type", "audio", "audio"), Take("audio", "audio", R("ai")),
      Take("audio", "vqe", R("vqe")), Take("audio", "audio", R("ai_chn"))>>
AudioSteps ==
    AudioInput \o <<Take("audio", "audio", R("aenc")), Take("audio", "audio", R("ai_bind")),
                    Take("audio", "audio", R("t_aenc"))>>

Plan(on) ==
    SelectSeq(MainSteps \o IspSteps \o RockivaSteps \o <<Take("pipeline", "always", R("mpi"))>>
                \o <<PublisherChecks>> \o ManagerSteps \o InitializeChannels \o StartWorkers
                \o AudioSteps,
              LAMBDA c : c.opt = "always" \/ c.opt \in on)

-----------------------------------------------------------------------------
(* Clean-up, in program order *)

FpsUndo == <<R("t_fps"), <<"att", 1>>, <<"rgn", 1>>, <<"att", 0>>, <<"rgn", 0>>>>
ChannelUndo(id) == <<<<"bind", id>>, <<"venc", id>>, <<"vi", id>>>>
VideoUndo ==
    <<R("t_iva"), R("t_osd"), <<"t_venc", 0>>, <<"t_venc", 1>>>> \o FpsUndo
      \o <<<<"att", 2>>, <<"rgn", 2>>>> \o ChannelUndo(1) \o ChannelUndo(0) \o <<R("dev")>>
IspUndo == <<R("isp"), R("isp_ctx")>>
AudioUndo == <<R("t_aenc"), R("ai_bind"), R("aenc"), R("ai_chn"), R("vqe"), R("ai")>>
PublisherUndo == <<<<"endpoint", 0>>, <<"endpoint", 1>>, R("net"), R("route")>>
\* Mutant: the semaphore is forgotten.
RockivaUndoShort == <<R("ba"), R("iva"), R("list")>>
RockivaUndo == <<R("ba"), R("iva"), R("list"), R("signal")>>

PipelineUndo ==
    VideoUndo \o IspUndo \o AudioUndo \o PublisherUndo \o <<R("mpi")>> \o RockivaUndo
MainUndo == <<R("param"), R("log"), R("state")>>

\* What the constructor of a scope cleans up itself when one of its calls fails.
Undo(scope) ==
    CASE scope = "video" -> VideoUndo
      [] scope = "audio" -> AudioUndo
      [] scope = "publisher" -> PublisherUndo
      [] scope = "rockiva" -> RockivaUndo
      [] OTHER -> <<>>

-----------------------------------------------------------------------------
Resources == LET plan == Plan(Options) IN {plan[i].get : i \in DOMAIN plan} \ {Nothing}

MediaTypeOK ==
    /\ cfg \subseteq Options
    /\ next \in 1..(Len(Plan(Options)) + 1)
    /\ held \subseteq Resources
    /\ known \subseteq Resources
    /\ phase \in {"build", "up", "undo", "down"}
    /\ (todo = <<>>) = (phase # "undo")

MediaInitWith(on) ==
    /\ cfg = on
    /\ next = 1 /\ held = {} /\ known = {} /\ todo = <<>> /\ phase = "build"
MediaInit == \E on \in SUBSET Options : ("vqe" \in on => "audio" \in on) /\ MediaInitWith(on)

Succeed ==
    LET c == Plan(cfg)[next] IN
    /\ phase = "build"
    /\ held' = held \cup ({c.get} \ {Nothing})
    /\ known' = known \cup c.know
    /\ next' = next + 1
    /\ phase' = IF next = Len(Plan(cfg)) THEN "up" ELSE "build"
    /\ UNCHANGED <<cfg, todo>>

Fail ==
    LET c == Plan(cfg)[next] IN
    /\ phase = "build"
    /\ c.call \in FailingCalls
    /\ todo' = Undo(c.scope) \o PipelineUndo \o MainUndo
    /\ phase' = "undo"
    /\ UNCHANGED <<cfg, next, held, known>>

\* A signal or a stalled channel ends the main loop.
Stop ==
    /\ phase = "up"
    /\ todo' = PipelineUndo \o MainUndo
    /\ phase' = "undo"
    /\ UNCHANGED <<cfg, next, held, known>>

Advance ==
    /\ todo' = Tail(todo)
    /\ phase' = IF Tail(todo) = <<>> THEN "down" ELSE "undo"
    /\ UNCHANGED <<cfg, next>>

Forget == known' = known \ {Head(todo)}

Release ==
    /\ phase = "undo" /\ Head(todo) \in known
    /\ held' = held \ {Head(todo)}
    /\ Forget
    /\ Advance

Skip ==
    /\ phase = "undo" /\ Head(todo) \notin known
    /\ Advance
    /\ UNCHANGED <<held, known>>

MediaNext == Succeed \/ Fail \/ Stop \/ Release \/ Skip

MediaSpec == MediaInit /\ [][MediaNext]_mediaVars

-----------------------------------------------------------------------------
(* Properties *)

\* Who uses what: a bound or attached object its ends, a channel its device, a
\* thread the handles and objects it touches, the SDK's objects the SDK.
Needs ==
    {<<<<"vi", i>>, R("dev")>> : i \in Channels}
    \cup {<<<<"bind", i>>, <<kind, i>>>> : i \in Channels, kind \in {"vi", "venc"}}
    \cup {<<<<"att", i>>, <<"rgn", i>>>> : i \in 0..2}
    \cup {<<<<"att", i>>, <<"venc", i>>>> : i \in Channels}
    \cup {<<<<"t_venc", i>>, <<kind, i>>>> : i \in Channels, kind \in {"venc", "rgn", "endpoint"}}
    \cup {<<<<"endpoint", i>>, R(kind)>> : i \in Channels, kind \in {"net", "route"}}
    \cup {<<R("t_fps"), <<"att", i>>>> : i \in Channels}
    \cup {<<R("t_iva"), r>> : r \in {<<"vi", 1>>, R("iva"), R("ba"), R("signal"), R("param")}}
    \cup {<<R("t_osd"), r>> : r \in {<<"att", 2>>, R("list")}}
    \cup {<<<<"att", 2>>, <<"venc", 1>>>>, <<R("dev"), R("isp")>>, <<R("isp"), R("isp_ctx")>>,
          <<R("ba"), R("iva")>>, <<R("ai_chn"), R("ai")>>, <<R("vqe"), R("ai")>>,
          <<R("ai_bind"), R("ai_chn")>>, <<R("ai_bind"), R("aenc")>>,
          <<R("t_aenc"), R("aenc")>>, <<R("t_aenc"), <<"endpoint", 0>>>>,
          <<R("param"), R("log")>>, <<R("log"), R("state")>>}
    \cup {<<r, R("mpi")>> : r \in {R("dev"), <<"venc", 0>>, <<"venc", 1>>, <<"rgn", 0>>,
                                   <<"rgn", 1>>, <<"rgn", 2>>, R("ai"), R("aenc")}}
    \cup {<<r, R("param")>> : r \in {R("isp_ctx"), R("iva"), R("mpi"), R("net")}}

Configured == LET plan == Plan(cfg) IN {plan[i].get : i \in DOMAIN plan}

\* What a failing call leaves to the end of the process because the flag comes
\* after it: the device that was enabled and not bound (video.cpp:188-196), the
\* context of a processor that was not prepared or started (rk_isp_init). They are
\* why RolledBack does not hold.
Lost ==
    IF phase \notin {"undo", "down"} \/ next > Len(Plan(cfg)) THEN {}
    ELSE CASE Plan(cfg)[next].call = "bind_pipe" -> {R("dev")}
           [] Plan(cfg)[next].call \in {"prepare", "start"} -> {R("isp_ctx")}
           [] OTHER -> {}

\* README 9.2, video.cpp:597: nothing is released, or built, in an order that
\* leaves a thread or an SDK object with a handle that is gone, wherever the
\* construction broke off.
NothingDangles ==
    LET missing == Configured \ held
    IN  \A need \in Needs : need[1] \in held \ Lost => need[2] \notin missing

\* A clean-up runs twice over the video, audio, publisher or RockIVA objects
\* when their constructor failed; it releases only what is held (video.cpp:599).
ReleasedOnce == known \subseteq held

\* include/media.hpp:11: whichever call fails, everything acquired is given back,
\* and so it is at the end of a run that succeeded. The code does not keep this.
RolledBack == phase = "down" => held = {}

\* The whole life of the objects and threads: in the order of their
\* dependencies, each given back once, and none left behind but the two that
\* Lost names, which the program does not roll back.
RolledBackSaveLost ==
    MediaTypeOK /\ NothingDangles /\ ReleasedOnce /\ (phase = "down" => held = Lost)
=============================================================================
