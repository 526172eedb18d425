------------------------- MODULE ExtensionsRebuild -------------------------
(***************************************************************************)
(* Installing, reloading and uninstalling the extensions of a persistent   *)
(* session (src/tools/extensions-tools.ts).  Each restarts the browser on  *)
(* the session's profile (src/tools/extensions-rebuild.ts): detach the     *)
(* bridge, close the browser, launch another, wire it and put it on the    *)
(* session entry, giving up control between any two of these.  Nothing     *)
(* keeps two calls, or a call and close_session, apart.                    *)
(*                                                                         *)
(* A browser and its bridge are named after the call that launched it; an  *)
(* extension is its path, and so its id.                                   *)
(*                                                                         *)
(* Playwright's close of a browser may reject, which the rebuild swallows: *)
(* it takes the old browser to have ended and launches on its profile.  So *)
(* does the module: a browser that is told to close ends.                  *)
(***************************************************************************)
CONSTANTS
  Extensions,  \* unpacked extensions in the workspace
  Calls        \* calls of the three tools, each made at most once

First    == "first"     \* the browser the session was opened with
Teardown == "teardown"  \* the close of the session
Browsers == Calls \cup {First}

ASSUME CallsAssumption == First \notin Calls /\ Teardown \notin Calls

VARIABLES
  loaded,     \* e.extensions.loaded
  session,    \* e.session: a browser
  bridge,     \* e.bridge: that of a browser
  detached,   \* browsers whose bridge is detached
  running,    \* browsers alive, all of them on the profile
  flags,      \* browser -> the extensions it was launched with
  pc,         \* call, or the close of the session -> where it is
  op,         \* call -> what it does and to which extension
  overlapped  \* some call ran while another did or while the session closed

entry == <<loaded, session, bridge>>
world == <<detached, running, flags>>
vars  == <<entry, world, pc, op, overlapped>>

Operations == {"install", "reload", "uninstall"}
NoOp       == [do |-> "none"]
Answered   == {"idle", "ok", "refused", "failed", "closed"}

TypeOK ==
  /\ loaded \subseteq Extensions
  /\ {session, bridge} \subseteq Browsers
  /\ detached \cup running \subseteq Browsers
  /\ flags \in [Browsers -> SUBSET Extensions]
  /\ pc \in [Calls \cup {Teardown} -> Answered \cup {"detaching", "launching", "wiring"}]
  /\ op \in [Calls -> {NoOp} \cup [do : Operations, ext : Extensions]]
  /\ overlapped \in BOOLEAN

Init ==
  /\ loaded = {} /\ session = First /\ bridge = First
  /\ detached = {} /\ running = {First}
  /\ flags = [b \in Browsers |-> {}]
  /\ pc = [c \in Calls \cup {Teardown} |-> "idle"]
  /\ op = [c \in Calls |-> NoOp]
  /\ overlapped = FALSE

At(c, step)   == pc[c] = step
Goto(c, step) == pc' = [pc EXCEPT ![c] = step]
Busy          == \E c \in Calls \cup {Teardown} : pc[c] \notin Answered
SessionIsOpen == At(Teardown, "idle")

Detach(b) == detached' = detached \cup {b}

-----------------------------------------------------------------------------
\* What applyInstall, applyReload and applyUninstall make of the list.
After(o) ==
  CASE o.do = "install"   -> loaded \cup {o.ext}
    [] o.do = "reload"    -> loaded
    [] o.do = "uninstall" -> loaded \ {o.ext}

\* install takes what is not loaded, the others what is.
Refused(o) == o.ext \in loaded <=> o.do = "install"

Refuse(c, o) ==
  /\ SessionIsOpen /\ At(c, "idle")
  /\ Refused(o) \/ o.do = "reload"   \* or its manifest has gone bad
  /\ op' = [op EXCEPT ![c] = o]
  /\ Goto(c, "refused")
  /\ UNCHANGED <<entry, world, overlapped>>

\* The list changes at once, and with it is settled what will be launched; the
\* bridge stops listening.
Start(c, o) ==
  /\ SessionIsOpen /\ At(c, "idle")
  /\ ~ Refused(o)
  /\ loaded' = After(o)
  /\ flags' = [flags EXCEPT ![c] = After(o)]
  /\ Detach(bridge)
  /\ op' = [op EXCEPT ![c] = o]
  /\ overlapped' = (overlapped \/ Busy)
  /\ Goto(c, "detaching")
  /\ UNCHANGED <<session, bridge, running>>

\* The bridge is off; the browser the entry has by now is closed.  Whether its
\* close rejected is not looked at.
CloseOld(c) ==
  /\ At(c, "detaching")
  /\ running' = running \ {session}
  /\ Goto(c, "launching")
  /\ UNCHANGED <<entry, detached, flags, op, overlapped>>

\* Chromium opens no second browser on a profile.
Launch(c) ==
  /\ At(c, "launching") /\ running = {}
  /\ running' = {c}
  /\ Goto(c, "wiring")
  /\ UNCHANGED <<entry, detached, flags, op, overlapped>>

RollBackNothing(c) == loaded' = loaded

\* What a failed rebuild leaves of the list: install takes its extension back.
RollBack(c) ==
  loaded' = IF op[c].do = "install" THEN loaded \ {op[c].ext} ELSE loaded

\* The launch fails, and has to while a browser is on the profile.
LaunchFails(c) ==
  /\ At(c, "launching")
  /\ RollBack(c)
  /\ Goto(c, "failed")
  /\ UNCHANGED <<session, bridge, world, op, overlapped>>

\* Something fails between the launch and the end of the wiring.  The new
\* browser stays, and nothing names it.
WiringFails(c) ==
  /\ At(c, "wiring")
  /\ RollBack(c)
  /\ Goto(c, "failed")
  /\ UNCHANGED <<session, bridge, world, op, overlapped>>

Splice(c) ==
  /\ At(c, "wiring")
  /\ session' = c
  /\ bridge' = c
  /\ Goto(c, "ok")
  /\ UNCHANGED <<loaded, world, op, overlapped>>

-----------------------------------------------------------------------------
(* close_session, once the entry is out of the registry.                     *)

\* What stands before is awaited; then the bridge of the moment is detached.
BeginTeardown ==
  /\ SessionIsOpen
  /\ Detach(bridge)
  /\ overlapped' = (overlapped \/ Busy)
  /\ Goto(Teardown, "detaching")
  /\ UNCHANGED <<entry, running, flags, op>>

CloseFirst ==
  /\ At(Teardown, "detaching")
  /\ running' = running \ {First}
  /\ Goto(Teardown, "closed")
  /\ UNCHANGED <<entry, detached, flags, op, overlapped>>

CloseSession ==
  /\ At(Teardown, "detaching")
  /\ running' = running \ {session}
  /\ Goto(Teardown, "closed")
  /\ UNCHANGED <<entry, detached, flags, op, overlapped>>

-----------------------------------------------------------------------------
Rebuild(c) == CloseOld(c) \/ Launch(c) \/ LaunchFails(c) \/ WiringFails(c) \/ Splice(c)

Next ==
  \/ \E c \in Calls, do \in Operations, x \in Extensions :
       LET o == [do |-> do, ext |-> x] IN Refuse(c, o) \/ Start(c, o)
  \/ \E c \in Calls : Rebuild(c)
  \/ BeginTeardown \/ CloseSession

Spec == Init /\ [][Next]_vars

-----------------------------------------------------------------------------
(* Properties.                                                               *)

Quiet == ~ Busy

\* Between calls, a session whose browser lives has a bridge on it that listens,
\* however the calls overlapped: a person can be asked (the splice of
\* rebuildPersistentForExtensions puts both on the entry in one step).
CanAsk == Quiet /\ SessionIsOpen /\ session \in running =>
            bridge = session /\ bridge \notin detached

\* A browser that runs for nobody was launched by a call that was answered with
\* an error, or by one that ran while the session was closing.
StraysHaveFailed ==
  Quiet => \A b \in running : \/ b = session /\ SessionIsOpen
                              \/ At(b, "failed")
                              \/ overlapped /\ ~ SessionIsOpen

\* While calls wait for each other, the browser a session has runs just what
\* extensions_list lists.
ListIsTrue == Quiet /\ ~ overlapped /\ session \in running => flags[session] = loaded

\* While calls wait for each other, a session whose browser is gone has told so:
\* its last restart failed.
LossIsTold ==
  Quiet /\ ~ overlapped /\ SessionIsOpen /\ session \notin running =>
    \E c \in Calls : At(c, "failed")

\* An installation that failed is not listed, unless another call put it there:
\* also when calls overlap, which all change the one list.
FailedIsNotListed ==
  \A c \in Calls :
    At(c, "failed") /\ op[c].do = "install" /\ op[c].ext \in loaded =>
      \E d \in Calls \ {c} : op[d] = op[c] /\ pc[d] \notin {"idle", "refused"}

\* What an agent is told of the session is so.
TellsTheTruth == ListIsTrue /\ LossIsTold /\ FailedIsNotListed

\* Documented: after a restart that failed, "close it and open a fresh one".  A
\* fresh one needs the profile.
CloseFreesProfile == Quiet /\ ~ SessionIsOpen => running = {}
=============================================================================
