------------------------------ MODULE IspSettings ------------------------------
(***************************************************************************)
(* common/isp/rv1106/isp.c for camera 0: every setter writes an attribute of *)
(* the image processor (hw) and the parameter of the current scenario (ini);  *)
(* rk_isp_set_from_ini runs all of them in a fixed order. Values are strings. *)
(* A write to the image processor may be refused by its library, which then   *)
(* leaves the attribute; reading attributes back is taken to succeed.         *)
(***************************************************************************)
EXTENDS Naturals, Sequences

CONSTANTS
    ValueSets,   \* functions from the keys that vary together to their values
    Scenarios,   \* values of isp:scenario that are chosen
    PwmWorks,    \* rk_pwm_init() succeeds
    Refusable    \* settings whose write the image processor may refuse

VARIABLES
    varied,  \* the element of ValueSets that this behaviour varies
    aiq,     \* g_aiq_ctx[0] is not NULL
    isp      \* the settings, a record of:
             \*   ini      scenario -> key -> value
             \*   hw       attribute -> value
             \*   scenario current_scenario_id
             \*   wdr      g_WDRMode, "NORMAL" or "HDR2"
             \*   level    light_level, lit: light_state = 1
             \*   failing  settings whose write is refused in this call
             \*   refused  settings whose last write was refused

ispVars == <<varied, aiq, isp>>

\* Keys whose setter writes the attribute and the parameter, nothing else.
\* A write that is refused is not reported to the parameter.
ImageDirect == {"fps", "contrast", "brightness", "saturation", "hue"}
EnhancementDirect == {"gray_scale_mode", "distortion_correction"}
VideoDirect == {"power_line_frequency_mode", "image_flip"}
Direct == ImageDirect \cup EnhancementDirect \cup VideoDirect \cup {"exposure_time", "ldch_level"}

\* Setters that only write the parameter.
IniOnly == {"fill_light_mode", "noise_reduce_mode"}

BalanceGains == {"white_blance_red", "white_blance_green", "white_blance_blue"}

Settings ==
    Direct \cup IniOnly \cup BalanceGains \cup
    {"sharpness", "exposure_mode", "gain_mode", "exposure_gain", "night_to_day",
     "light_brightness", "hdr",
     "blc_region", "hlc", "hdr_level", "blc_strength", "hlc_level", "dark_boost_level",
     "white_blance_style", "dehaze", "spatial_denoise_level", "temporal_denoise_level",
     "dehaze_level"}

ASSUME IspAssumption ==
    /\ PwmWorks \in BOOLEAN /\ Refusable \subseteq Settings
    /\ Scenarios \subseteq {"normal", "custom1"}
    /\ \A sets \in ValueSets : DOMAIN sets \subseteq Settings

Default ==
    [k \in Settings |->
        CASE k \in IniOnly \cup {"hdr", "blc_region", "hlc", "dehaze"} -> "close"
          [] k \in {"exposure_mode", "gain_mode"} -> "auto"
          [] k \in {"exposure_gain", "light_brightness", "hdr_level", "blc_strength"} -> "1"
          [] k \in {"hlc_level", "dark_boost_level"} -> "0"
          [] k = "night_to_day" -> "day"
          [] k = "white_blance_style" -> "autoWhiteBalance"
          [] OTHER -> "50"]

\* Most settings have an attribute of their own. gain_mode only has the switch of
\* the manual gain in the working mode (gain_en), hdr_level and dark_boost_level
\* share the gain of the DRC, and the spatial level is the strength of ynr.
Attributes ==
    (Settings \cup {"gain_en", "drc", "ynr"})
      \ (IniOnly \cup {"gain_mode", "light_brightness", "hdr", "hdr_level", "dark_boost_level",
                       "spatial_denoise_level"})

\* What the image-quality file leaves in the attributes after an init.
Iq == [a \in Attributes |->
        IF a \in {"blc_region", "hlc"} THEN "close"
        ELSE IF a = "white_blance_style" THEN "autoWhiteBalance" ELSE "iq"]

\* What parameters and attributes can hold: what is written here, or is chosen.
Values ==
    {"close", "open", "auto", "on", "off", "0", "1", "5", "50", "day", "autoWhiteBalance", "iq", "none",
     "hdr_level", "dark_boost_level"}
    \cup UNION {UNION {sets[k] : k \in DOMAIN sets} : sets \in ValueSets}

-----------------------------------------------------------------------------
(* The setters, as functions of the settings *)

Param(s, k) == s.ini[s.scenario][k]
SetParam(s, k, v) == [s EXCEPT !.ini[s.scenario][k] = v]

\* The setter of k writes attribute a: the image processor takes it or refuses.
SdkWrite(s, k, a, v) ==
    IF k \in s.failing THEN [s EXCEPT !.refused = @ \cup {k}]
    ELSE [s EXCEPT !.hw[a] = v, !.refused = @ \ {k}]

\* The parameter is written whatever the image processor answers.
Both(s, k, v) == SdkWrite(SetParam(s, k, v), k, k, v)

\* The only setter that gives up when its write is refused.
Sharpness(s, v) ==
    IF "sharpness" \in s.failing THEN SdkWrite(s, "sharpness", "sharpness", v)
    ELSE Both(s, "sharpness", v)

\* Manual exposure also sets the manual gain of the working mode.
ExposureMode(s, v) ==
    IF v = "auto" THEN Both(s, "exposure_mode", v)
    ELSE SdkWrite(Both(s, "exposure_mode", v), "exposure_mode", "gain_en", "on")

GainMode(s, v) ==
    SdkWrite(SetParam(s, "gain_mode", v), "gain_mode", "gain_en",
             IF v = "auto" THEN "off" ELSE "on")

\* The test for a manual gain assigns instead of comparing: it never refuses,
\* and the attributes are written back with the manual gain off.
ExposureGain(s, v) ==
    SdkWrite(Both(s, "exposure_gain", v), "exposure_gain", "gain_en", "off")

NightToDay(s, v) ==
    [Both(s, "night_to_day", v) EXCEPT !.lit = IF v = "night" THEN @ ELSE FALSE]

LightBrightness(s, v) ==
    IF s.level = v THEN s
    ELSE [SetParam(s, "light_brightness", v) EXCEPT !.level = v, !.lit = PwmWorks]

\* blc_region and hlc, refused in HDR mode, reset their strength.
Compensation(s, k, strength, v) ==
    IF s.wdr # "NORMAL" THEN s
    ELSE SdkWrite(SdkWrite(SetParam(s, k, v), k, k, IF v = "close" THEN v ELSE "open"),
                  k, strength, "0")

Strength(s, k, enable, v) ==
    IF s.wdr # "NORMAL" \/ s.hw[enable] = "close" THEN s ELSE Both(s, k, v)

\* hdr_level and dark_boost_level set the same gain; the last one holds.
Drc(s, k, v) == SdkWrite(SetParam(s, k, v), k, "drc", k)

AtLeastOne(v) == IF v = "0" THEN "1" ELSE v

WhiteBalance(s, k, v) ==
    IF s.hw["white_blance_style"] = "autoWhiteBalance" THEN s ELSE Both(s, k, AtLeastOne(v))

\* Noise reduction is turned off through the level, which forgets its value;
\* the Bayer strength is read where it should be set, so only ynr changes.
Denoise(s, k, off, v) ==
    LET level == IF Param(s, "noise_reduce_mode") \in off THEN "50" ELSE v
    IN  SdkWrite(SetParam(s, k, level), k,
                 IF k = "spatial_denoise_level" THEN "ynr" ELSE k, level)

\* Dehazing starts at level 5, a strength of 50.
Dehaze(s, v) ==
    IF v = "close" THEN Both(s, "dehaze", v)
    ELSE SdkWrite(Both(s, "dehaze", v), "dehaze", "dehaze_level", "5")

\* The mode is read under the camera's number, not the scenario's.
DehazeLevel(s, v) ==
    IF s.ini[0]["dehaze"] = "close" THEN s ELSE Both(s, "dehaze_level", v)

Apply(s, k, v) ==
    CASE k \in Direct -> Both(s, k, v)
      [] k \in IniOnly -> SetParam(s, k, v)
      [] k = "sharpness" -> Sharpness(s, v)
      [] k = "exposure_mode" -> ExposureMode(s, v)
      [] k = "gain_mode" -> GainMode(s, v)
      [] k = "exposure_gain" -> ExposureGain(s, v)
      [] k = "night_to_day" -> NightToDay(s, v)
      [] k = "light_brightness" -> LightBrightness(s, v)
      [] k = "blc_region" -> Compensation(s, k, "blc_strength", v)
      [] k = "hlc" -> Compensation(s, k, "hlc_level", v)
      [] k = "blc_strength" -> Strength(s, k, "blc_region", v)
      [] k = "hlc_level" -> Strength(s, k, "hlc", AtLeastOne(v))
      [] k \in {"hdr_level", "dark_boost_level"} -> Drc(s, k, v)
      [] k = "white_blance_style" -> Both(s, k, v)
      [] k \in BalanceGains -> WhiteBalance(s, k, v)
      [] k = "dehaze" -> Dehaze(s, v)
      [] k = "dehaze_level" -> DehazeLevel(s, v)
      [] k = "spatial_denoise_level" -> Denoise(s, k, {"close", "3dnr"}, v)
      [] k = "temporal_denoise_level" -> Denoise(s, k, {"close", "2dnr"}, v)

\* The setters in the order of rk_isp_set_from_ini, by group.
ImageKeys == <<"fps", "contrast", "brightness", "saturation", "sharpness", "hue">>
ExposureKeys == <<"exposure_mode", "gain_mode", "exposure_time", "exposure_gain">>
NightKeys == <<"night_to_day", "fill_light_mode", "light_brightness">>
\* Mutant: levels before the switches that enable them.
BacklightKeysLevelsFirst ==
    <<"blc_strength", "hlc_level", "blc_region", "hlc", "hdr_level", "dark_boost_level">>

BacklightKeys ==
    <<"blc_region", "hlc", "hdr_level", "blc_strength", "hlc_level", "dark_boost_level">>
BalanceKeys ==
    <<"white_blance_style", "white_blance_red", "white_blance_green", "white_blance_blue">>
EnhancementKeys ==
    <<"noise_reduce_mode", "dehaze", "gray_scale_mode", "distortion_correction",
      "spatial_denoise_level", "temporal_denoise_level", "dehaze_level", "ldch_level">>
VideoKeys == <<"power_line_frequency_mode", "image_flip">>

\* A group of setters, each with the parameter as it is then.
RunGroup(s, keys) ==
    LET run[i \in 0..Len(keys)] ==
            IF i = 0 THEN s ELSE Apply(run[i - 1], keys[i], Param(run[i - 1], keys[i]))
    IN  run[Len(keys)]

\* rk_isp_set_from_ini().
Restore(s) ==
    LET first == RunGroup(RunGroup(RunGroup(s, ImageKeys), ExposureKeys), NightKeys)
        balanced == RunGroup(RunGroup(first, BacklightKeys), BalanceKeys)
    IN  RunGroup(RunGroup(balanced, EnhancementKeys), VideoKeys)

\* rk_isp_init(): the mode is the scenario's, all attributes are the file's.
Fresh(s) == [s EXCEPT !.hw = Iq, !.wdr = IF Param(s, "hdr") = "HDR2" THEN "HDR2" ELSE "NORMAL"]

-----------------------------------------------------------------------------

IspInitWith(sets, chosen) ==
    /\ varied = sets /\ aiq = FALSE
    /\ isp = [ini |-> [i \in 0..1 |->
                         [k \in Settings |-> IF k \in DOMAIN sets THEN chosen[i][k] ELSE Default[k]]],
              hw |-> Iq, scenario |-> 0,
              wdr |-> "NORMAL", level |-> "none", lit |-> FALSE,
              failing |-> {}, refused |-> {}]

\* A file may say anything for either scenario.
IspInit ==
    \E sets \in ValueSets :
        LET some == [DOMAIN sets -> UNION {sets[k] : k \in DOMAIN sets}]
        IN  \E chosen \in [0..1 -> {f \in some : \A k \in DOMAIN sets : f[k] \in sets[k]}] :
                IspInitWith(sets, chosen)

\* The settings, in a call in which the writes of f are refused.
Refusing(f) == [isp EXCEPT !.failing = f]
Refusals == SUBSET (Refusable \cap DOMAIN varied)

\* What MediaRuntime does at start, and a caller may do again.
Start ==
    /\ ~aiq
    /\ \E f \in Refusals : isp' = Restore(Fresh(Refusing(f)))
    /\ aiq' = TRUE

TurnOff == aiq /\ aiq' = FALSE /\ UNCHANGED isp

Setter(k, v) ==
    /\ aiq
    /\ \E f \in Refusals : isp' = Apply(Refusing(f), k, v)
    /\ UNCHANGED aiq

\* Switching the scene may load other attributes from the file.
SetScenario(name) ==
    /\ aiq
    /\ \E f \in Refusals, hw \in {isp.hw, Iq} :
         isp' = Restore([Refusing(f) EXCEPT !.scenario = IF name = "normal" THEN 0 ELSE 1, !.hw = hw])
    /\ UNCHANGED aiq

\* The channels are paused, the processor is taken down and brought up again; the
\* setters run as well when it was prepared and did not start.
SetHdr(v) ==
    /\ aiq /\ v # Param(isp, "hdr")
    /\ \E f \in Refusals : isp' = Restore(Fresh(SetParam(Refusing(f), "hdr", v)))
    /\ UNCHANGED aiq

\* It does not get as far; the setters refuse from now on.
SetHdrFails(v) ==
    /\ aiq /\ v # Param(isp, "hdr")
    /\ aiq' = FALSE
    /\ isp' = Fresh(SetParam(isp, "hdr", v))

Turn ==
    \/ Start \/ TurnOff
    \/ \E k \in DOMAIN varied \ {"hdr"} : \E v \in varied[k] : Setter(k, v)
    \/ \E name \in Scenarios : SetScenario(name)
    \/ \E v \in IF "hdr" \in DOMAIN varied THEN varied["hdr"] ELSE {} : SetHdr(v) \/ SetHdrFails(v)

IspNext == Turn /\ UNCHANGED varied

IspSpec == IspInit /\ [][IspNext]_ispVars

-----------------------------------------------------------------------------
(* Properties *)

IspStates ==
    [ini : [0..1 -> [Settings -> Values]], hw : [Attributes -> Values],
     scenario : 0..1, wdr : {"NORMAL", "HDR2"}, level : Values, lit : BOOLEAN,
     failing : SUBSET Settings, refused : SUBSET Settings]

IspTypeOK == aiq \in BOOLEAN /\ isp \in IspStates

\* The settings whose setter always writes an attribute of their own. gain_mode is
\* none: exposure_gain turns the manual gain off whatever the mode says (GainIsOff).
Getters ==
    Direct \cup {"sharpness", "exposure_mode", "night_to_day", "white_blance_style", "dehaze"}

\* The getters answer from the parameters: unless the image processor refused the
\* last write of a setting, its getter tells what the image processor does,
\* through setters of other settings, scenario switches and restarts.
GettersTrue ==
    aiq => \A k \in Getters \ isp.refused : isp.hw[k] = Param(isp, k)

\* After rk_isp_set_from_ini every setting has been written again, and those that
\* depend on another one are in force as well, except where a write was refused
\* in this very call: the order of the setters first enables what the later ones
\* refuse or reset without it.
Restoring == isp'.scenario # isp.scenario \/ aiq' # aiq \/ isp'.wdr # isp.wdr
Taken(s, ks) == ks \cap s.failing = {}
DependentsInForce(s) ==
    /\ s.wdr = "NORMAL" =>
        /\ Param(s, "blc_region") # "close" /\ Taken(s, {"blc_region", "blc_strength"}) =>
            s.hw["blc_strength"] = Param(s, "blc_strength")
        /\ Param(s, "hlc") # "close" /\ Taken(s, {"hlc", "hlc_level"}) =>
            s.hw["hlc_level"] = Param(s, "hlc_level")
    /\ /\ Param(s, "white_blance_style") # "autoWhiteBalance"
       /\ Taken(s, {"white_blance_style", "white_blance_red"})
       => s.hw["white_blance_red"] = Param(s, "white_blance_red")
    /\ Param(s, "noise_reduce_mode") = "close" /\ Taken(s, {"spatial_denoise_level"}) =>
        s.hw["ynr"] = "50"
    /\ Taken(s, {"dark_boost_level"}) => s.hw["drc"] = "dark_boost_level"
AllWritten(s) == s.refused \cap Getters \subseteq s.failing
\* exposure_gain runs after gain_mode and turns the manual gain off, whatever
\* exposure_mode and gain_mode say.
GainIsOff(s) == Taken(s, {"exposure_gain"}) => s.hw["gain_en"] = "off"
RestoredWhole ==
    [][aiq' /\ Restoring => AllWritten(isp') /\ DependentsInForce(isp') /\ GainIsOff(isp')]_ispVars

\* Parameters and image processor stay in step, as far as it takes what is
\* written: through every setter, scenario switch and restart, also when it
\* refuses some writes, with the settings that need another one set first.
ParametersInForce == [](IspTypeOK /\ GettersTrue) /\ RestoredWhole
=============================================================================
