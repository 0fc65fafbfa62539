------------------------------ MODULE GifExport ------------------------------
(***************************************************************************)
(* The two buttons under a sent video or animation: "GIF" converts and     *)
(* sends an animation (on_convert_to_gif), ".gif file" exports a document  *)
(* (on_save_as_gif_file, _export_native_gif), both of app/bot/callbacks.py.*)
(* They find the exact source of the message (app/core/state.py), convert  *)
(* it (app/services/converter.py) and send it under the press's durable    *)
(* job, when there is one.                                                 *)
(*                                                                         *)
(* All presses are of buttons of one message: they share the source, the   *)
(* claims in processing_gifs and the cached document id.                   *)
(***************************************************************************)
EXTENDS Integers, FiniteSets

CONSTANTS
    Presses,    \* presses of the two buttons
    Permits,    \* conversions of one kind at a time
    MaxCrashes, \* bound: crashes of the process
    MaxFaults   \* bound: cancelled handlers and failed receipt writes

Kinds == {"gif", "file"}

VARIABLES
    durable,    \* presses are jobs that run again after a crash
    kind,       \* the button of each press
    claims,     \* state.processing_gifs for this source
    permits,    \* free places of conversion_sem and gif_file_sem
    source,     \* the local file the message was sent from still exists
    docId,      \* gifdoc_cache: the file id of an exported document
    disk,       \* files presses of this process made: <<press, "source" | "output">>
    kept,       \* outputs handed to file_cache
    row,        \* the durable row of each press's one send
    run,        \* the handlers
    sent,       \* copies each press put into the chat
    crashes, faults

vars == <<durable, kind, claims, permits, source, docId, disk, kept,
          row, run, sent, crashes, faults>>
files == <<disk, kept>>
fixed == <<durable, kind>>
limits == <<crashes, faults>>

Outcomes == {"success", "failed", "uncertain"}
Busy == {"claimed", "cached", "find", "fetch", "convert", "converting", "ready",
         "record", "sent"}
Fresh == [pc |-> "new", from |-> "none", verdict |-> "none"]

(* Every variable keeps its type.                                          *)
TypeOK ==
    /\ durable \in BOOLEAN /\ kind \in [Presses -> Kinds]
    /\ claims \subseteq Kinds
    /\ permits \in [Kinds -> 0 .. Permits]
    /\ source \in BOOLEAN /\ docId \in {"none", "good", "stale"}
    /\ disk \subseteq Presses \X {"source", "output"}
    /\ kept \subseteq Presses
    /\ row \in [Presses -> Outcomes \cup {"none", "open"}]
    /\ run \in [Presses -> [pc : Busy \cup {"new", "checked", "done"},
                            from : {"none", "cache", "local", "own"},
                            verdict : Outcomes \cup {"none"}]]
    /\ sent \in [Presses -> 0 .. 2]
    /\ crashes \in 0 .. MaxCrashes /\ faults \in 0 .. MaxFaults

Init ==
    /\ durable \in BOOLEAN /\ kind \in [Presses -> Kinds]
    /\ claims = {}
    /\ permits = [k \in Kinds |-> Permits]
    /\ source \in BOOLEAN /\ docId = "none"
    /\ disk = {} /\ kept = {}
    /\ row = [p \in Presses |-> "none"]
    /\ run = [p \in Presses |-> Fresh]
    /\ sent = [p \in Presses |-> 0]
    /\ crashes = 0 /\ faults = 0

Fault == faults < MaxFaults /\ faults' = faults + 1

At(p, pc) == run[p].pc = pc
Go(p, pc) == run' = [run EXCEPT ![p].pc = pc]

\* The files a press still owns: those it made, without a handed-over output.
Owned(p) == {f \in disk : f[1] = p /\ ~ (f[2] = "output" /\ p \in kept)}

\* The finally block: the claim and every owned file go together.
Leave(p) ==
    /\ claims' = claims \ {kind[p]}
    /\ disk' = disk \ Owned(p)
    /\ Go(p, "done")

Unsafe(p) == durable /\ row[p] \notin {"none", "failed"}

-----------------------------------------------------------------------------
(* Up to the claim: the animation button asks the store first, the document *)
(* button claims first. *)

Check(p) ==
    /\ \/ kind[p] = "gif" /\ At(p, "new")
       \/ kind[p] = "file" /\ At(p, "claimed")
    /\ IF Unsafe(p)
       THEN IF kind[p] = "file" THEN Leave(p)
            ELSE Go(p, "done") /\ UNCHANGED <<claims, disk>>
       ELSE /\ Go(p, IF kind[p] = "gif" THEN "checked" ELSE "cached")
            /\ UNCHANGED <<claims, disk>>
    /\ UNCHANGED <<fixed, permits, source, docId, kept, row, sent, limits>>

Claim(p) ==
    /\ At(p, IF kind[p] = "gif" THEN "checked" ELSE "new")
    /\ IF kind[p] \in claims
       THEN Go(p, "done") /\ UNCHANGED claims
       ELSE /\ claims' = claims \cup {kind[p]}
            /\ Go(p, IF kind[p] = "gif" THEN "find" ELSE "claimed")
    /\ UNCHANGED <<fixed, permits, source, docId, files, row, sent, limits>>

-----------------------------------------------------------------------------
(* The source and its conversion. *)

\* No cached document id: the export starts from the source.
NotCached(p) ==
    /\ At(p, "cached") /\ docId = "none"
    /\ Go(p, "find")
    /\ UNCHANGED <<fixed, claims, permits, source, docId, files, row, sent, limits>>

\* local_sent_media_source, or a download into a file the press owns from the
\* moment it exists.
Find(p) ==
    /\ At(p, "find")
    /\ IF source
       THEN run' = [run EXCEPT ![p].pc = "convert", ![p].from = "local"]
            /\ UNCHANGED disk
       ELSE run' = [run EXCEPT ![p].pc = "fetch", ![p].from = "own"]
            /\ disk' = disk \cup {<<p, "source">>}
    /\ UNCHANGED <<fixed, claims, permits, source, docId, kept, row, sent,
                   limits>>

\* download_to_drive: a failed or empty download ends the press.
Fetch(p) ==
    /\ At(p, "fetch")
    /\ \/ Go(p, "convert") /\ UNCHANGED <<claims, disk>>
       \/ Leave(p)
    /\ UNCHANGED <<fixed, permits, source, docId, kept, row, sent, limits>>

\* The document button refuses a large source and sends a .gif as it is; a
\* source that has meanwhile gone ends either button.
Skip(p) ==
    /\ At(p, "convert")
    /\ \/ kind[p] = "file" /\ Go(p, "ready") /\ UNCHANGED <<claims, disk>>
       \/ kind[p] = "file" /\ Leave(p)
       \/ run[p].from = "local" /\ ~ source /\ Leave(p)
    /\ UNCHANGED <<fixed, permits, source, docId, kept, row, sent, limits>>

Convert(p) ==
    /\ At(p, "convert") /\ permits[kind[p]] > 0
    /\ permits' = [permits EXCEPT ![kind[p]] = @ - 1]
    /\ disk' = disk \cup {<<p, "output">>}
    /\ Go(p, "converting")
    /\ UNCHANGED <<fixed, claims, source, docId, kept, row, sent, limits>>

\* ffmpeg: success needs the source to its end; a failed output is removed.
Converted(p) ==
    /\ At(p, "converting")
    /\ permits' = [permits EXCEPT ![kind[p]] = @ + 1]
    /\ \/ (run[p].from = "local" => source) /\ Go(p, "ready")
          /\ UNCHANGED <<claims, disk>>
       \/ Leave(p)
    /\ UNCHANGED <<fixed, source, docId, kept, row, sent, limits>>

-----------------------------------------------------------------------------
(* The send, under the press's receipt. *)

\* What was in Telegram's hands when the answer got lost counts as a copy.
\* A cached document id that has become stale is refused by Telegram.
Send(p, v) ==
    /\ At(p, "ready") \/ (At(p, "cached") /\ docId # "none")
    /\ (At(p, "cached") /\ docId = "stale") => v = "failed"
    /\ run' = [run EXCEPT ![p].verdict = v, ![p].pc = "record",
                          ![p].from = IF At(p, "cached") THEN "cache" ELSE @]
    /\ row' = IF durable THEN [row EXCEPT ![p] = "open"] ELSE row
    /\ \/ v # "failed" /\ sent' = [sent EXCEPT ![p] = @ + 1]
       \/ v # "success" /\ UNCHANGED sent
    /\ UNCHANGED <<fixed, claims, permits, source, docId, files, limits>>

Receipt(p, v) == row' = IF durable THEN [row EXCEPT ![p] = v] ELSE row

\* A cached id that was refused is exported anew; anything uncertain stops.
Record(p) ==
    /\ At(p, "record")
    /\ Receipt(p, run[p].verdict)
    /\ CASE run[p].verdict = "success" /\ run[p].from # "cache" ->
                Go(p, "sent") /\ UNCHANGED <<claims, disk>>
         [] run[p].verdict = "failed" /\ run[p].from = "cache" ->
                run' = [run EXCEPT ![p].pc = "find", ![p].verdict = "none"]
                /\ UNCHANGED <<claims, disk>>
         [] OTHER -> Leave(p)
    /\ UNCHANGED <<fixed, permits, source, docId, kept, sent, limits>>

\* The document's file id is cached; the animation's file may be handed to
\* file_cache, when Telegram's copy is the one this process remembers.
Finish(p) ==
    /\ At(p, "sent")
    /\ claims' = claims \ {kind[p]}
    /\ Go(p, "done")
    /\ docId' = IF kind[p] = "file" THEN "good" ELSE docId
    /\ \/ disk' = disk \ Owned(p) /\ UNCHANGED kept
       \/ /\ kind[p] = "gif" /\ <<p, "output">> \in disk
          /\ kept' = kept \cup {p}
          /\ disk' = disk \ (Owned(p) \ {<<p, "output">>})
    /\ UNCHANGED <<fixed, permits, source, row, sent, limits>>

-----------------------------------------------------------------------------
(* The surroundings. *)

\* Fault: a cancelled conversion keeps its place.
InterruptKeeping(p) ==
    /\ run[p].pc \in Busy
    /\ Fault
    /\ Leave(p)
    /\ UNCHANGED <<fixed, permits, source, docId, kept, row, sent, crashes>>

\* cancel_owner or a drain cancels the handler at an await; the converter has
\* given its place back and the receipt may or may not have been written.
Interrupt(p) ==
    /\ run[p].pc \in Busy
    /\ Fault
    /\ permits' = IF At(p, "converting") THEN [permits EXCEPT ![kind[p]] = @ + 1]
                  ELSE permits
    /\ \/ At(p, "record") /\ Receipt(p, run[p].verdict)
       \/ UNCHANGED row
    /\ Leave(p)
    /\ UNCHANGED <<fixed, source, docId, kept, sent, crashes>>

\* The owner of the source deletes it; ids and cached files expire.
SourceGoes ==
    /\ source /\ source' = FALSE
    /\ UNCHANGED <<fixed, claims, permits, docId, files, row, run, sent, limits>>
DocIdGoes ==
    /\ docId = "good" /\ docId' \in {"stale", "none"}
    /\ UNCHANGED <<fixed, claims, permits, source, files, row, run, sent, limits>>
Evict(p) ==
    /\ p \in kept
    /\ kept' = kept \ {p} /\ disk' = disk \ {<<p, "output">>}
    /\ UNCHANGED <<fixed, claims, permits, source, docId, row, run, sent,
                   limits>>

\* The store hands the unfinished presses to the next process. The files of the
\* dead one are out of this model (no janitor takes a name like gif_src_*).
Crash ==
    /\ crashes < MaxCrashes /\ crashes' = crashes + 1
    /\ claims' = {} /\ permits' = [k \in Kinds |-> Permits]
    /\ kept' = {} /\ disk' = {}
    /\ source' = FALSE
    /\ run' = [p \in Presses |-> IF run[p].pc = "new" \/ (durable /\ run[p].pc # "done")
                                 THEN Fresh ELSE [run[p] EXCEPT !.pc = "done"]]
    /\ UNCHANGED <<fixed, docId, row, sent, faults>>

Step(p) ==
    \/ Check(p) \/ Claim(p) \/ NotCached(p) \/ Find(p) \/ Fetch(p) \/ Skip(p)
    \/ Convert(p) \/ Converted(p) \/ Record(p) \/ Finish(p)
    \/ \E v \in Outcomes : Send(p, v)

Next ==
    \/ \E p \in Presses : Step(p) \/ Interrupt(p) \/ Evict(p)
    \/ SourceGoes \/ DocIdGoes \/ Crash

\* Handlers run on; a conversion place that stays free is taken.
Fairness == \A p \in Presses : WF_vars(Step(p)) /\ SF_vars(Convert(p))

Spec == Init /\ [][Next]_vars /\ Fairness

-----------------------------------------------------------------------------
(* Properties. *)

(* Two presses of one button never export the same source together, and a   *)
(* claim stands for exactly the press that took it: no return, error or     *)
(* cancellation leaves it behind (processing_gifs).                         *)
OneExportPerSource ==
    \A k \in Kinds :
        Cardinality({p \in Presses : kind[p] = k /\ run[p].pc \in Busy})
            = IF k \in claims THEN 1 ELSE 0

(* "failed, uncertain, and cancelled sends retain no such owner"            *)
(* (docs/acceptance.md 84): every file made here belongs to the press that  *)
(* works on it, or is a confirmed animation in file_cache.                  *)
FilesHaveOneOwner ==
    \A f \in disk :
        IF f[1] \in kept THEN f[2] = "output" /\ run[f[1]].verdict = "success"
                              /\ run[f[1]].pc = "done"
        ELSE run[f[1]].pc \in Busy

(* One press puts one copy into the chat: not a second one after a lost     *)
(* answer, a refused cached id, a cancellation or a crash.                  *)
OnePressOneCopy == \A p \in Presses : sent[p] <= 1

(* Every conversion place is free or held by a conversion in progress.      *)
PlacesAddUp ==
    \A k \in Kinds :
        permits[k] + Cardinality({p \in Presses : kind[p] = k /\ At(p, "converting")})
            = Permits

(* Whatever is pressed, fails, is cancelled or crashes: one export for each *)
(* source and button, no stray file, one copy for each press, no lost place *)
(* (on_gif and on_gif_file).                                                *)
GifExportIsSafe ==
    TypeOK /\ OneExportPerSource /\ FilesHaveOneOwner /\ OnePressOneCopy /\ PlacesAddUp

\* The source is claimed, and its button answers "in progress".
Waits(k) == k \in claims
=============================================================================
