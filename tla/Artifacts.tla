----------------------------- MODULE Artifacts -----------------------------
(***************************************************************************)
(* From a request to a validated file, for one video or sound: the plan of *)
(* the yt-dlp provider or the direct link of FxTwitter, the ffmpeg command *)
(* of transport.py, the artifact that ffmpeg makes of the source, and the  *)
(* validation of pipeline.py.  Times are half seconds, dimensions are the  *)
(* short edge and the orientation.                                         *)
(***************************************************************************)
EXTENDS Integers, FiniteSets

CONSTANTS
    None,       \* not given, not declared, no stream
    Durations,  \* of the media
    Starts,     \* of the clips that are asked for
    Ends,       \* of the clips that are asked for
    Edges       \* short edges that are asked for

VARIABLES
    pc,       \* what comes next
    request,  \* what is asked for
    media,    \* the source as it is
    plan,     \* the candidate
    made,     \* the file
    damage    \* history: how it differs from what the command asked for

vars == <<pc, request, media, plan, made, damage>>

Least(a, b) == IF a < b THEN a ELSE b
Most(a, b) == IF a < b THEN b ELSE a

Minute == 120

\* AUTO is planned and validated as a video.
Kinds == {"video", "audio", "animation"}

\* The formats of yt-dlp: whole files, pictures without sound, sounds.
Whole == {[ext |-> "mp4", v |-> "h264", a |-> "aac"], [ext |-> "webm", v |-> "vp9", a |-> "opus"]}
Pictures == {[ext |-> "mp4", v |-> "h264", a |-> None], [ext |-> "mp4", v |-> "av1", a |-> None],
             [ext |-> "webm", v |-> "vp9", a |-> None]}
Sounds == {[ext |-> "m4a", v |-> None, a |-> "aac"], [ext |-> "webm", v |-> None, a |-> "opus"]}

\* A tweet's file, with a sound or without, of which nothing is declared.
Tweets == {[ext |-> "mp4", v |-> "h264", a |-> s] : s \in {"aac", None}}

Clipped == request.start # None \/ request.end # None
Start == IF request.start = None THEN 0 ELSE request.start

-----------------------------------------------------------------------------
(* The plan. *)

\* _mp4_compatible.
Mp4Compatible(p, s) == p.v = "h264" /\ s.a = "aac"

\* YtDlpProvider._candidate for a format, or a picture and a sound.
YtDlpPlan(p, s) ==
    [provider |-> "ytdlp",
     video |-> request.kind # "audio", audio |-> request.kind # "animation",
     sources |-> IF s = None THEN <<p>> ELSE <<p, s>>, declared |-> TRUE,
     container |-> CASE request.kind = "audio" -> "mp3"
                     [] request.kind = "animation" -> "mp4"
                     [] OTHER -> IF s # None /\ ~Mp4Compatible(p, s) THEN "mkv" ELSE p.ext,
     mux |-> CASE request.kind = "audio" -> "extract-mp3"
               [] request.kind = "animation" -> "mute-mp4"
               [] OTHER -> IF s # None THEN "copy" ELSE None]

TweetPlan(f) ==
    [provider |-> "fxtwitter", video |-> TRUE, audio |-> TRUE, sources |-> <<f>>,
     declared |-> FALSE, container |-> "mp4", mux |-> None]

\* The pairs that _candidates makes a plan of.
YtDlpPlans ==
    CASE request.kind = "audio" -> {YtDlpPlan(f, None) : f \in Whole \cup Sounds}
      [] request.kind = "animation" -> {YtDlpPlan(f, None) : f \in Whole \cup Pictures}
      [] OTHER -> {YtDlpPlan(f, None) : f \in Whole}
                    \cup {YtDlpPlan(f, s) : f \in Pictures, s \in Sounds}

Init ==
    /\ pc = "plan"
    /\ request \in [kind : Kinds, start : Starts, end : Ends, edge : Edges \cup {None}]
    /\ request.end # None => request.end > Start
    /\ media \in [length : Durations, told : BOOLEAN, tall : BOOLEAN, rotated : BOOLEAN, edge : Edges]
    /\ request.edge # None => media.edge = request.edge
    /\ plan = None /\ made = None /\ damage = "none"

MakePlan ==
    /\ pc = "plan" /\ pc' = "transform"
    /\ plan' \in YtDlpPlans \cup
          (IF request.kind = "video" /\ request.edge = None THEN {TweetPlan(f) : f \in Tweets} ELSE {})
    /\ UNCHANGED <<request, media, made, damage>>

-----------------------------------------------------------------------------
(* The command and what ffmpeg makes of it. *)

\* _finalize_candidate: a file that needs nothing stays as it is.
Untouched == plan.mux = None /\ ~Clipped

\* _finalize_candidate, _candidate_extension.
Extension == CASE plan.mux = "extract-mp3" -> "mp3"
               [] plan.mux = "mute-mp4" -> "mp4"
               [] OTHER -> plan.container

\* _reencode_arguments: the codecs of the picture and of the sound.
ReencodeArguments ==
    IF Extension = "webm" THEN [v |-> "vp9", a |-> IF plan.audio THEN "opus" ELSE None]
    ELSE [v |-> "h264", a |-> IF plan.audio THEN "aac" ELSE None]

\* _clip_arguments, _animation_clip_arguments: the length of -t.
ClipArgument ==
    LET asked == IF request.end = None THEN None ELSE request.end - Start IN
    IF plan.mux # "mute-mp4" THEN asked
    ELSE IF asked = None THEN Minute ELSE Least(Minute, asked)

\* The streams of the inputs that the command maps.
Picture == plan.sources[1].v
Sound == IF Cardinality(DOMAIN plan.sources) = 2 THEN plan.sources[2].a ELSE plan.sources[1].a

\* _build_transform_command: the codecs it asks for.
Asked ==
    CASE Untouched -> [v |-> Picture, a |-> Sound]
      [] plan.mux = "extract-mp3" -> [v |-> None, a |-> "mp3"]
      [] plan.mux = "mute-mp4" -> [v |-> Picture, a |-> None]
      [] Clipped /\ ~Untouched ->
            [v |-> ReencodeArguments.v, a |-> IF Sound = None THEN None ELSE ReencodeArguments.a]
      [] OTHER -> [v |-> Picture, a |-> Sound]

\* The codecs a container can hold.
Holds(container) ==
    CASE container = "mp3" -> {"mp3", None}
      [] container = "m4a" -> {"aac", None}
      [] container = "webm" -> {"vp9", "av1", "opus", None}
      [] OTHER -> {"h264", "vp9", "av1", "aac", "opus", None}

\* What is left of the media after -ss and -t.
Cut ==
    LET rest == Most(0, media.length - Start) IN
    IF Untouched THEN media.length
    ELSE IF ClipArgument = None THEN rest ELSE Least(rest, ClipArgument)

\* A picture that is encoded again is turned upright, a copied one is not.
Encoded == plan.mux \notin {"mute-mp4", "extract-mp3"} /\ Clipped

Honest ==
    [container |-> IF Untouched THEN plan.sources[1].ext ELSE Extension,
     v |-> Asked.v, a |-> Asked.a, length |-> Cut, edge |-> media.edge,
     tall |-> IF media.rotated /\ ~Encoded THEN ~media.tall ELSE media.tall,
     rotated |-> media.rotated /\ ~Encoded]

\* An artifact that ffmpeg or the source has spoiled.
Spoilt(d) ==
    CASE d = "none" -> Honest
      [] d = "late" -> [Honest EXCEPT !.length = @ + 1]
      [] d = "silent" -> [Honest EXCEPT !.a = None]
      [] d = "sound" -> [Honest EXCEPT !.a = "aac"]
      [] d = "blind" -> [Honest EXCEPT !.v = None]
      [] d = "short" -> [Honest EXCEPT !.length = @ \div 2]
      [] d = "turned" -> [Honest EXCEPT !.tall = ~@]
      [] d = "small" -> [Honest EXCEPT !.edge = @ \div 2]
      [] d = "codec" -> [Honest EXCEPT !.v = IF @ = None THEN None ELSE "mpeg4"]
      [] d = "whole" -> [Honest EXCEPT !.length = media.length]

Damages == {"none", "late", "silent", "sound", "blind", "short", "turned", "small", "codec", "whole"}

\* ffmpeg ends well; otherwise, or when nothing is left, the transfer fails.
Transform ==
    /\ pc = "transform"
    /\ IF Honest.length > 0 /\ {Asked.v, Asked.a} \subseteq Holds(Honest.container)
       THEN \E d \in Damages : damage' = d /\ made' = Spoilt(d) /\ pc' = "validate"
       ELSE pc' = "failed" /\ UNCHANGED <<made, damage>>
    /\ UNCHANGED <<request, media, plan>>

-----------------------------------------------------------------------------
(* validate_materialized_artifact. *)

\* _CONTAINER_FORMATS: ffprobe does not tell mp4 from m4a, nor webm from mkv.
Family(container) ==
    CASE container \in {"mp4", "m4a"} -> "mov"
      [] container = "webm" -> "matroska+webm"
      [] container = "mkv" -> "matroska+webm"
      [] OTHER -> container

SameContainer == Family(plan.container) = Family(made.container)

\* Both dimensions are known, as whoever asks for an edge needs.
SizeTold == media.told \/ request.edge # None

\* _display_dimensions.
DisplayTall == made.tall # made.rotated

\* _transcoded_codecs.
TranscodedCodecs ==
    IF plan.container = "webm" THEN [v |-> {"vp9"}, a |-> IF plan.audio THEN {"opus"} ELSE {}]
    ELSE [v |-> {"h264"}, a |-> IF plan.audio THEN {"aac"} ELSE {}]

\* What the sources declare.
DeclaredCodecs ==
    IF plan.declared
    THEN [v |-> {plan.sources[i].v : i \in DOMAIN plan.sources} \ {None},
          a |-> {plan.sources[i].a : i \in DOMAIN plan.sources} \ {None}]
    ELSE [v |-> {}, a |-> {}]

\* Fault: a validation that forgets that a clip was encoded again.
ExpectedAsDeclared == DeclaredCodecs

\* _validate_stream_codecs; an animation's sound is no longer expected.
ExpectedCodecs ==
    IF Clipped /\ plan.mux # "mute-mp4" THEN TranscodedCodecs ELSE DeclaredCodecs

\* _expected_duration.
Expected ==
    LET told == IF media.told THEN Most(0, media.length - Start) ELSE None
        whole == IF request.end # None THEN Most(0, request.end - Start) ELSE told IN
    IF plan.mux = "mute-mp4" /\ whole # None THEN Least(whole, Minute) ELSE whole

\* Within 1.5 seconds or a twentieth.
Near(length, expected) == 20 * Most(length - expected, expected - length) <= Most(60, expected)

Streams ==
    /\ request.kind = "audio" => made.a # None
    /\ request.kind # "audio" => made.v # None
    /\ request.kind = "video" /\ plan.audio =>
          made.a # None \/ (plan.provider = "fxtwitter" /\ Untouched)
    /\ request.kind = "animation" => made.a = None /\ made.length <= Minute + 1

Codecs ==
    plan.mux = "extract-mp3" \/
       /\ ExpectedCodecs.v # {} => made.v \in ExpectedCodecs.v
       /\ ExpectedCodecs.a # {} => made.a \in ExpectedCodecs.a

Valid ==
    /\ Streams /\ SameContainer
    /\ request.kind = "audio" => made.container = "mp3" /\ made.a = "mp3"
    /\ plan.video /\ SizeTold => DisplayTall = media.tall /\ made.edge = media.edge
    /\ request.kind = "video" /\ request.edge # None => made.edge >= request.edge
    /\ Codecs
    /\ Expected # None => Near(made.length, Expected)

Validate ==
    /\ pc = "validate" /\ pc' = IF Valid THEN "accepted" ELSE "rejected"
    /\ UNCHANGED <<request, media, plan, made, damage>>

Next == MakePlan \/ Transform \/ Validate

Spec == Init /\ [][Next]_vars /\ WF_vars(Next)

-----------------------------------------------------------------------------
(* Properties. *)

TypeOK ==
    /\ pc \in {"plan", "transform", "validate", "accepted", "rejected", "failed"}
    /\ pc = "plan" <=> plan = None
    /\ pc \in {"validate", "accepted", "rejected"} <=> made # None

\* A clip that is to end well after the media does.
BeyondTheEnd == request.end # None /\ ~Near(media.length - Start, request.end - Start)

\* A clip of a tweet that turns out to have no sound.
SilentClip == plan.provider = "fxtwitter" /\ Clipped /\ Sound = None

\* An animation of a file that has a sound as well.
WholeAnimation == plan.mux = "mute-mp4" /\ Sound # None

(* What ffmpeg was asked for passes, half a second more or less; only clips  *)
(* that end after the media or are cut from a silent tweet are refused, and  *)
(* animations of files with a sound (their sound's codec is missed).         *)
HonestWorkPasses ==
    pc = "rejected" /\ damage \in {"none", "late"} =>
       BeyondTheEnd \/ SilentClip \/ WholeAnimation

\* The command never asks a container for what it cannot hold.
CommandsCanBeObeyed ==
    pc = "failed" => Start >= media.length

(* What passes is what was asked for: the streams of its kind, with a sound  *)
(* unless it is a tweet's file as it was, in an MP3 if it is a sound, none   *)
(* if it is an animation, upright if its size is known, large enough, and as *)
(* long as the clip, or an animation, may be.                                *)
AcceptedIsAsked ==
    pc = "accepted" =>
       /\ IF request.kind = "audio" THEN made.a = "mp3" ELSE made.v \notin {None, "mpeg4"} \/ ~plan.declared
       /\ request.kind = "video" /\ (plan.declared \/ ~Untouched) => made.a # None
       /\ request.kind = "animation" => made.a = None /\ made.length <= Minute + 1
       /\ request.kind # "audio" /\ SizeTold => (DisplayTall <=> media.tall)
       /\ request.edge # None /\ request.kind = "video" => made.edge >= request.edge
       /\ request.end # None /\ plan.mux # "mute-mp4" => Near(made.length, request.end - Start)

(* The plan, the command and the validation agree.                           *)
ArtifactsAreRight == TypeOK /\ HonestWorkPasses /\ CommandsCanBeObeyed /\ AcceptedIsAsked

(* README.md:75: animations are delivered.  Whatever has a moving picture can *)
(* be made one that passes.                                                   *)
AnimationsPass ==
    request.kind = "animation" /\ ~Clipped /\ damage = "none" => pc # "rejected"
=============================================================================
