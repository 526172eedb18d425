--------------------------- MODULE ReplaySession ---------------------------
(***************************************************************************)
(* Starting, ending and abandoning a replay recording of one session       *)
(* (src/replay/session.ts), as start_recording, end_recording and the      *)
(* teardown of close_session call it.  Each of them gives up control at    *)
(* every await, and none excludes another.                                 *)
(*                                                                         *)
(* A recording is named after the start call that made it; so are its log  *)
(* file, its listeners and its artifact.  The log is the one of ReplayLog: *)
(* here it is open, being closed or closed, and some write of it may have  *)
(* failed by the time it is.                                               *)
(***************************************************************************)
EXTENDS Naturals, FiniteSets

CONSTANTS
  Starts,    \* calls of start_recording with a replay, each made at most once
  Ends,      \* calls of end_recording, each made at most once
  Overlaps   \* which calls need not wait for a start to be answered:
             \*   "start", "end", and "close" while its log is being opened

None     == "none"
Teardown == "teardown"
Calls    == Starts \cup Ends \cup {Teardown}

ASSUME CallsAssumption == Starts \cap Ends = {} /\ {None, Teardown} \cap (Starts \cup Ends) = {}
ASSUME OverlapsAssumption == Overlaps \subseteq {"start", "end", "close"}

VARIABLES
  current,   \* replayLog: the recording it belongs to
  path,      \* jsonlPath and artifactPath
  closed,    \* the flag of that name
  subs,      \* recordings with handlers listed in subscriptions
  dom,       \* domHandle
  tracked,   \* whose body fetches pendingBodyFetches holds
  yaml,      \* the flow recorder of the session is active
  taps,      \* recordings whose handlers are attached to the page and its context
  doms,      \* recordings whose DOM sink is live
  fetching,  \* recordings with a response body being fetched
  missed,    \* recordings that lost a response because their log was shut
  log,       \* recording -> "none", "open", "closing", "closed"
  failed,    \* recordings with a failed write
  jsonl,     \* plaintext logs on disk
  artifacts, \* what was packed: of which recording, was its log written to the
             \*   end, and had no close of the session begun
  pc,        \* call -> where it is
  held,      \* call -> the recording it looked up before its last await
  gone,      \* the session's browser is closed
  raced      \* history: whose sources were still being attached when the
             \*   teardown began

object == <<current, path, closed, subs, dom, tracked>>
browser == <<taps, doms, fetching, missed, gone>>
files   == <<log, failed, jsonl, artifacts>>
recordVars   == <<object, yaml, browser, files, pc, held, raced>>

Steps == {"idle", "opening", "dom", "net", "ok", "failed", "refused",
          "abort", "abort dom", "abort log", "abort past", "aborted",
          "end dom", "end log", "end past", "pack"}

RecordTypeOK ==
  /\ current \in Starts \cup {None} /\ path = current
  /\ dom \in Starts \cup {None} /\ tracked \in Starts \cup {None}
  /\ closed \in BOOLEAN /\ yaml \in BOOLEAN /\ gone \in BOOLEAN
  /\ subs \subseteq Starts /\ taps \subseteq Starts /\ doms \subseteq Starts
  /\ fetching \subseteq Starts /\ missed \subseteq Starts
  /\ failed \subseteq Starts /\ jsonl \subseteq Starts
  /\ log \in [Starts -> {"none", "open", "closing", "closed"}]
  /\ artifacts \subseteq [of : Starts, whole : BOOLEAN, open : BOOLEAN]
  /\ pc \in [Calls -> Steps]
  /\ held \in [Calls -> Starts \cup {None}]
  /\ raced \subseteq Starts

RecordInit ==
  /\ current = None /\ path = None /\ dom = None /\ tracked = None
  /\ closed = FALSE /\ yaml = FALSE /\ gone = FALSE
  /\ subs = {} /\ taps = {} /\ doms = {} /\ fetching = {} /\ missed = {}
  /\ log = [r \in Starts |-> "none"]
  /\ failed = {} /\ jsonl = {} /\ artifacts = {}
  /\ pc = [c \in Calls |-> "idle"]
  /\ held = [c \in Calls |-> None]
  /\ raced = {}

At(c, step)    == pc[c] = step
Goto(c, step)  == pc' = [pc EXCEPT ![c] = step]
Hold(c, r)     == held' = [held EXCEPT ![c] = r]
Answered(c)    == pc[c] \in {"idle", "ok", "failed", "refused", "aborted"}
Starting       == \E r \in Starts : ~ Answered(r)
SessionIsOpen  == At(Teardown, "idle")

-----------------------------------------------------------------------------
(* start                                                                     *)

\* The flow recorder starts over whatever becomes of the replay.
Start(r) ==
  /\ SessionIsOpen
  /\ At(r, "idle")
  /\ "start" \in Overlaps \/ ~ Starting
  /\ yaml' = TRUE
  /\ Goto(r, IF current # None THEN "refused" ELSE "opening")
  /\ UNCHANGED <<object, browser, files, held, raced>>

OpenFails(r) ==
  /\ At(r, "opening")
  /\ Goto(r, "failed")
  /\ UNCHANGED <<object, yaml, browser, files, held, raced>>

\* The log is open and published.
Publish(r) ==
  /\ At(r, "opening")
  /\ current' = r
  /\ path' = r
  /\ log' = [log EXCEPT ![r] = "open"]
  /\ jsonl' = jsonl \cup {r}
  /\ UNCHANGED <<closed, dom, tracked, yaml, doms, fetching, missed, gone,
                 failed, artifacts, held, raced>>

\* The page's handlers are attached in the same step; without a page, or for
\* the tier that records actions only, that is all.
Opened(r) ==
  /\ Publish(r)
  /\ \/ /\ taps' = taps \cup {r} /\ subs' = subs \cup {r}
        /\ pc' \in {[pc EXCEPT ![r] = s] : s \in {"ok", "dom"}}
     \/ Goto(r, "ok") /\ UNCHANGED <<taps, subs>>

\* The context was torn down under it: start rolls back by way of abort.
AttachFails(r) ==
  /\ Publish(r)
  /\ Goto(r, "abort")
  /\ UNCHANGED <<taps, subs>>

\* attachDom answers, with a handle or with a failure that is only logged; then
\* attachNetwork looks at the session again.
DomAnswers(r) ==
  /\ At(r, "dom")
  /\ \/ dom' = r /\ doms' = doms \cup {r}
     \/ UNCHANGED <<dom, doms>>
  /\ \/ Goto(r, "ok") /\ UNCHANGED held                 \* no CDP session
     \/ IF current = None THEN Goto(r, "ok") /\ UNCHANGED held
        ELSE Goto(r, "net") /\ Hold(r, current)
  /\ UNCHANGED <<current, path, closed, subs, tracked, yaml, taps, fetching, missed,
                 gone, files, raced>>

NetAnswers(r) ==
  /\ At(r, "net")
  /\ \/ /\ taps' = taps \cup {held[r]}
        /\ subs' = subs \cup {held[r]}
        /\ tracked' = held[r]
     \/ UNCHANGED <<taps, subs, tracked>>
  /\ Goto(r, "ok")
  /\ UNCHANGED <<current, path, closed, dom, yaml, doms, fetching, missed, gone, files,
                 held, raced>>

-----------------------------------------------------------------------------
(* What the browser and the disk do meanwhile.                               *)

FetchBegins(r) ==
  /\ r \in taps /\ r = tracked
  /\ ~ gone
  /\ fetching' = fetching \cup {r}
  /\ UNCHANGED <<object, yaml, taps, doms, missed, gone, files, pc, held, raced>>

\* The response is appended: a log that is shut takes nothing.
FetchEnds(r) ==
  /\ r \in fetching
  /\ fetching' = fetching \ {r}
  /\ missed' = IF log[r] = "open" THEN missed ELSE missed \cup {r}
  /\ UNCHANGED <<object, yaml, taps, doms, gone, files, pc, held, raced>>

LogWriteFails(r) ==
  /\ log[r] \in {"open", "closing"}
  /\ failed' = failed \cup {r}
  /\ UNCHANGED <<object, yaml, browser, log, jsonl, artifacts, pc, held, raced>>

LogClosed(r) ==
  /\ log[r] = "closing"
  /\ log' = [log EXCEPT ![r] = "closed"]
  /\ UNCHANGED <<object, yaml, browser, failed, jsonl, artifacts, pc, held, raced>>

-----------------------------------------------------------------------------
(* Parts of end and abort.                                                   *)

\* Broken variant: what listens is detached after the log is shut.
DetachNothing == closed' = TRUE /\ UNCHANGED <<taps, subs, doms>>

\* Every handler goes, then the DOM sink; the wait for it comes next.
DetachAll ==
  /\ closed' = TRUE
  /\ taps' = taps \ subs
  /\ subs' = {}
  /\ doms' = doms \ {dom}

\* The log is closed: the first to do so waits for its writes, the next one and
\* one that finds no log do not.
Shut(c, waits, past) ==
  IF current # None /\ log[current] = "open"
  THEN Goto(c, waits) /\ log' = [log EXCEPT ![current] = "closing"]
  ELSE Goto(c, past) /\ UNCHANGED log

\* reset: idle again.
Reset == current' = None /\ path' = None /\ closed' = FALSE

-----------------------------------------------------------------------------
(* abort, by the teardown or by a start that rolls back.                     *)

BeginTeardown ==
  /\ SessionIsOpen
  /\ "close" \in Overlaps \/ ~ \E r \in Starts : At(r, "opening")
  /\ Goto(Teardown, "abort")
  /\ raced' = {r \in Starts : pc[r] \in {"opening", "dom", "net"}}
  /\ UNCHANGED <<object, yaml, browser, files, held>>

\* The teardown closes the browser next; a start throws.
AbortEnds(c) ==
  /\ Goto(c, IF c = Teardown THEN "aborted" ELSE "failed")
  /\ gone' = (gone \/ c = Teardown)

AbortIdle(c) ==
  /\ At(c, "abort")
  /\ current = None
  /\ AbortEnds(c)
  /\ UNCHANGED <<object, yaml, taps, doms, fetching, missed, files, held, raced>>

Abort(c) ==
  /\ At(c, "abort")
  /\ current # None
  /\ DetachAll
  /\ Goto(c, "abort dom")
  /\ UNCHANGED <<current, path, dom, tracked, yaml, fetching, missed, gone, files,
                 held, raced>>

\* The log it closes is the one of now; it may be none.
AbortLog(c) ==
  /\ At(c, "abort dom")
  /\ dom' = None
  /\ Hold(c, path)
  /\ Shut(c, "abort log", "abort past")
  /\ UNCHANGED <<current, path, closed, subs, tracked, yaml, browser, failed,
                 jsonl, artifacts, raced>>

\* Broken variant: a log a write of which failed is awaited for ever.
LogWritten(c, waits, past) == \/ At(c, waits) /\ log[held[c]] = "closed" /\ held[c] \notin failed
                              \/ At(c, past)

LogSettled(c, waits, past) == \/ At(c, waits) /\ log[held[c]] = "closed"
                              \/ At(c, past)

\* Broken variant: the plaintext stays.
AbortKeepsFile(c) ==
  /\ LogSettled(c, "abort log", "abort past")
  /\ Reset
  /\ AbortEnds(c)
  /\ UNCHANGED <<subs, dom, tracked, yaml, taps, doms, fetching, missed, files,
                 held, raced>>

AbortUnlink(c) ==
  /\ LogSettled(c, "abort log", "abort past")
  /\ jsonl' = jsonl \ {held[c]}
  /\ Reset
  /\ AbortEnds(c)
  /\ UNCHANGED <<subs, dom, tracked, yaml, taps, doms, fetching, missed,
                 log, failed, artifacts, held, raced>>

-----------------------------------------------------------------------------
(* end                                                                       *)

EndRefused(e) ==
  /\ SessionIsOpen
  /\ At(e, "idle")
  /\ ~ yaml
  /\ Goto(e, "refused")
  /\ UNCHANGED <<object, yaml, browser, files, held, raced>>

\* The flow recorder ends, and the replay if there is one in progress.
End(e) ==
  /\ SessionIsOpen
  /\ At(e, "idle")
  /\ "end" \in Overlaps \/ ~ Starting
  /\ yaml
  /\ yaml' = FALSE
  /\ IF current # None /\ ~ closed
     THEN DetachAll /\ Goto(e, "end dom")
     ELSE Goto(e, "ok") /\ UNCHANGED <<closed, taps, subs, doms>>
  /\ UNCHANGED <<current, path, dom, tracked, fetching, missed, gone, files,
                 held, raced>>

\* Broken variant: the log is shut although bodies are being fetched.
FetchesIgnored == TRUE
FetchesSettled == tracked \notin fetching

\* Once the fetches have settled the log is closed, if it is still there.
EndLog(e) ==
  /\ At(e, "end dom")
  /\ FetchesSettled
  /\ dom' = None
  /\ Hold(e, current)
  /\ IF current = None THEN Goto(e, "failed") /\ UNCHANGED log
     ELSE Shut(e, "end log", "end past")
  /\ UNCHANGED <<current, path, closed, subs, tracked, yaml, browser, failed,
                 jsonl, artifacts, raced>>

EndStats(e) ==
  /\ LogSettled(e, "end log", "end past")
  /\ Goto(e, IF held[e] \in failed THEN "failed" ELSE "pack")
  /\ Hold(e, IF held[e] \in failed THEN held[e] ELSE path)
  /\ UNCHANGED <<object, yaml, browser, files, raced>>

\* The file is read and packed, or one of the two fails; it is removed anyhow.
Pack(e) ==
  /\ At(e, "pack")
  /\ LET p == held[e]
     IN  /\ \/ p \in jsonl /\ artifacts' = artifacts \cup
                     {[of |-> p, whole |-> log[p] = "closed", open |-> SessionIsOpen]}
                /\ Goto(e, "ok")
            \/ Goto(e, "failed") /\ UNCHANGED artifacts
         /\ jsonl' = jsonl \ {p}
  /\ Reset
  /\ UNCHANGED <<subs, dom, tracked, yaml, browser, log, failed, held, raced>>

RecordNext ==
  \/ \E r \in Starts :
       \/ Start(r) \/ OpenFails(r) \/ Opened(r) \/ AttachFails(r)
       \/ DomAnswers(r) \/ NetAnswers(r)
       \/ FetchBegins(r) \/ FetchEnds(r) \/ LogWriteFails(r) \/ LogClosed(r)
  \/ \E c \in Starts \cup {Teardown} :
       AbortIdle(c) \/ Abort(c) \/ AbortLog(c) \/ AbortUnlink(c)
  \/ \E e \in Ends : EndRefused(e) \/ End(e) \/ EndLog(e) \/ EndStats(e) \/ Pack(e)
  \/ BeginTeardown

RecordSpec == RecordInit /\ [][RecordNext]_recordVars

\* The disk and the browser answer, and what awaits them is run.
Fairness ==
  /\ \A r \in Starts : /\ WF_recordVars(OpenFails(r) \/ Opened(r) \/ AttachFails(r))
                       /\ WF_recordVars(DomAnswers(r)) /\ WF_recordVars(NetAnswers(r))
                       /\ WF_recordVars(FetchEnds(r)) /\ WF_recordVars(LogClosed(r))
  /\ \A c \in Starts \cup {Teardown} :
       WF_recordVars(AbortIdle(c) \/ Abort(c) \/ AbortLog(c) \/ AbortUnlink(c))
  /\ \A e \in Ends : WF_recordVars(EndLog(e) \/ EndStats(e) \/ Pack(e))

FairSpec == RecordSpec /\ Fairness

-----------------------------------------------------------------------------
(* Properties.                                                               *)

Quiet == \A c \in Calls : Answered(c)

\* Once every call is answered, the only log on disk and the only one open are
\* those of the recording the session still names; a closed session has none
\* (the promise of abort, and what end removes when it fails).
NoPlaintextTrace ==
  Quiet => /\ jsonl \subseteq (IF gone THEN {} ELSE {current})
           /\ \A r \in Starts : log[r] \in {"open", "closing"} =>
                ~ gone /\ r = current

\* Nothing that listens for a recording outlives its log, before, during and
\* after a close of the session, whatever end, abort or failed start shuts the
\* log: each of them detaches first.  Only a start whose sources are being
\* attached while a close begins is not covered.
SourcesFirst ==
  \A r \in Starts \ raced : log[r] \in {"closing", "closed"} => r \notin taps \cup doms

\* Documented: DOM and network are detached before the log is closed, of every
\* recording.  The start that a close overtakes attaches them to a shut log.
SourcesAlwaysFirst ==
  \A r \in Starts : log[r] \in {"closing", "closed"} /\ ~ gone => r \notin taps \cup doms

\* While the session is open an artifact is packed from a log whose writes have
\* all ended, none of them failed, and it holds every response whose body was
\* being fetched when the recording was ended.
ArtifactsWhole ==
  \A a \in artifacts : a.open => a.whole /\ a.of \notin failed \cup missed

\* Documented: what is packed is what the statistics count.  The second to close
\* a log gets them while the first still waits for the writes.
PackedIsCounted == \A a \in artifacts : a.whole

\* Documented: whatever fails in end, the session can record again.
EndLeavesIdle ==
  \A e \in Ends : At(e, "failed") /\ Quiet => current = None \/ ~ closed

\* Every call is answered.
CallsEnd == \A c \in Calls : ~ Answered(c) ~> Answered(c)
=============================================================================
