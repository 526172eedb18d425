----------------------------- MODULE FilePicker -----------------------------
(***************************************************************************)
(* A page that saves files through the file pickers of a session: the      *)
(* policy and the staged answers (src/session/fs-picker-policy.ts), the    *)
(* two bindings that serve the pickers (src/session/fs-picker-attach.ts),  *)
(* and the call budget both sit behind (src/session/binding-guard.ts).     *)
(*                                                                         *)
(* One page and its frames.  A bucket is its level, in parts of a token;   *)
(* what a call computes from the time since the last one is added as the   *)
(* time passes, which is the same number as capping twice is capping once. *)
(*                                                                         *)
(* The page, the human and the disk are external.  The page calls what it  *)
(* likes, in the order it is handled.  A chunk is the handle it was written *)
(* through and its number.  Left out: the records of picker calls that an  *)
(* action reports, and the open and directory pickers, whose handles are   *)
(* like those of a save answered without a path.                           *)
(***************************************************************************)
EXTENDS Integers, Sequences, FiniteSets

CONSTANTS
  Paths,        \* workspace paths a file may be saved to
  Nowhere,      \* the path of a handle without a destination (null)
  Frames,       \* the frames of the page
  Prompts,      \* prompts that may be out at once
  Call,         \* parts of a token: what one call costs
  PageBurst, PageRefill,      \* decisions, whole page: burst, parts per tick
  FrameBurst, FrameRefill,    \* decisions, one frame
  ReplyBurst, ReplyRefill,    \* deny replies to decisions over budget
  MaxInFlight,                \* decisions that wait at once
  WriteBurst, WriteRefill,    \* writes, whole page
  MaxHandles,   \* bound: handles handed out
  MaxChunks,    \* bound: chunks sent through a handle, and pieces of a file
  MaxSize,      \* bound: pieces of zeros of a truncation
  MaxStaged     \* bound: answers staged

Ids    == 1 .. MaxHandles
Modes  == {"allow", "deny", "ask-human"}   \* raise denies too
Places == Paths \cup {Nowhere}

ASSUME NowhereAssumption == Nowhere \notin Paths
ASSUME NumbersAssumption ==
  /\ Call \in Nat \ {0}
  /\ PageBurst \in Nat /\ FrameBurst \in Nat /\ ReplyBurst \in Nat /\ WriteBurst \in Nat
  /\ PageRefill \in Nat /\ FrameRefill \in Nat /\ ReplyRefill \in Nat /\ WriteRefill \in Nat
  /\ MaxInFlight \in Nat /\ MaxHandles \in Nat /\ MaxStaged \in Nat
  /\ MaxChunks \in Nat /\ MaxSize \in Nat
ASSUME PromptsAssumption == IsFiniteSet(Prompts)

\* The page's budget is what two frames may use (DEFAULT_BUDGETS).
ASSUME BudgetAssumption ==
  /\ PageBurst >= 2 * FrameBurst
  /\ PageRefill >= 2 * FrameRefill

VARIABLES
  page,       \* level of the page's bucket for decisions
  share,      \* frame -> level of its bucket for decisions
  callers,    \* history: frames that called since the page's bucket was last full
  replies,    \* level of the bucket of deny replies
  inFlight,   \* decisions being waited for
  writes,     \* level of the page's bucket for writes
  mode,       \* the policy
  staged,     \* answers staged, oldest first
  waiting,    \* prompts a human has not answered
  minted,     \* handleCounter
  handle,     \* id -> the write target
  files,      \* path -> what the file holds
  sent,       \* history: id -> chunks the page wrote since it last truncated the
              \* file and before it first closed the handle, or Spoilt once the
              \* file was touched by anything else
  zeros,      \* history: id -> the size the page last truncated the file to
  saved       \* history: handles on which a close was reported to have succeeded

decisions == <<page, share, callers, replies, inFlight>>
answers   == <<mode, staged, waiting>>
targets   == <<minted, handle>>
history   == <<sent, zeros>>
saving    == <<files, history, saved>>
vars      == <<decisions, writes, answers, targets, saving>>

Target == [path : Places, truncated : BOOLEAN, closed : BOOLEAN, shed : BOOLEAN]
Fresh(p) == [path |-> p, truncated |-> FALSE, closed |-> FALSE, shed |-> FALSE]

\* What a file may hold: numbered chunks, zeros, and what is neither.
Spoilt == -1
Piece  == [by : Nat, n : Nat]
Other  == [by |-> 0, n |-> 0]
Zero   == [by |-> 0, n |-> 1]

TypeOK ==
  /\ page \in 0 .. PageBurst
  /\ share \in [Frames -> 0 .. FrameBurst]
  /\ callers \subseteq Frames
  /\ replies \in 0 .. ReplyBurst
  /\ inFlight \in Int
  /\ writes \in 0 .. WriteBurst
  /\ mode \in Modes
  /\ staged \in Seq(Places)
  /\ waiting \subseteq Prompts
  /\ minted \in 0 .. MaxHandles
  /\ handle \in [Ids -> Target]
  /\ files \in [Paths -> Seq(Piece)]
  /\ sent \in [Ids -> Nat \cup {Spoilt}]
  /\ zeros \in [Ids -> Nat]
  /\ saved \subseteq Ids

Init ==
  /\ page = PageBurst
  /\ share = [f \in Frames |-> FrameBurst]
  /\ callers = {}
  /\ replies = ReplyBurst
  /\ inFlight = 0
  /\ writes = WriteBurst
  /\ mode \in Modes
  /\ staged = << >>
  /\ waiting = {}
  /\ minted = 0
  /\ handle = [h \in Ids |-> Fresh(Nowhere)]
  /\ files = [p \in Paths |-> << >>]
  /\ sent = [h \in Ids |-> 0]
  /\ zeros = [h \in Ids |-> 0]
  /\ saved = {}

-----------------------------------------------------------------------------
(* The budget (TokenBucket.take, BindingGuard.wrap).                        *)

UpTo(burst, level) == IF level <= burst THEN level ELSE burst
Spent(level)       == IF level >= Call THEN level - Call ELSE level

Tick ==
  /\ page' = UpTo(PageBurst, page + PageRefill)
  /\ share' = [f \in Frames |-> UpTo(FrameBurst, share[f] + FrameRefill)]
  /\ callers' = IF page' = PageBurst THEN {} ELSE callers
  /\ replies' = UpTo(ReplyBurst, replies + ReplyRefill)
  /\ writes' = UpTo(WriteBurst, writes + WriteRefill)
  /\ UNCHANGED <<inFlight, answers, targets, saving>>

HasSlot      == inFlight < MaxInFlight
HasShare(f)  == share[f] >= Call
HasBudget    == page >= Call
Admitted(f)  == HasSlot /\ HasShare(f) /\ HasBudget

\* Broken variant: the page's bucket is taken first.
ChargePageFirst(f) ==
  /\ page' = Spent(page)
  /\ share' = IF HasBudget THEN [share EXCEPT ![f] = Spent(@)] ELSE share
  /\ callers' = callers \cup {f}

\* The frame's bucket is taken first, the page's only if the frame had a token.
Charge(f) ==
  /\ share' = [share EXCEPT ![f] = Spent(@)]
  /\ page' = IF HasShare(f) THEN Spent(page) ELSE page
  /\ callers' = callers \cup {f}

\* A decision over budget: denied while there are replies, never settled else.
PickShed(f) ==
  /\ ~ Admitted(f)
  /\ IF HasSlot THEN Charge(f) ELSE UNCHANGED <<page, share, callers>>
  /\ replies' = Spent(replies)
  /\ UNCHANGED <<inFlight, writes, answers, targets, saving>>

-----------------------------------------------------------------------------
(* The policy and the picker (set_fs_picker_policy, fs_picker_respond,      *)
(* __browx_fs_picker_check).                                                *)

SetPolicy(m) ==
  /\ mode' = m
  /\ UNCHANGED <<decisions, writes, staged, waiting, targets, saving>>

Respond(p) ==
  /\ Len(staged) < MaxStaged
  /\ staged' = Append(staged, p)
  /\ UNCHANGED <<decisions, writes, mode, waiting, targets, saving>>

\* prepareAllowResponse: a new handle for what was answered.
HandOut(p) ==
  /\ minted < MaxHandles
  /\ minted' = minted + 1
  /\ handle' = [handle EXCEPT ![minted + 1] = Fresh(p)]

\* allow: the oldest staged answer; a handle without a destination if there is
\* none.
PickAllowed(f) ==
  /\ mode = "allow"
  /\ Admitted(f)
  /\ Charge(f)
  /\ HandOut(IF staged = << >> THEN Nowhere ELSE Head(staged))
  /\ staged' = IF staged = << >> THEN staged ELSE Tail(staged)
  /\ UNCHANGED <<replies, inFlight, writes, mode, waiting, saving>>

PickDenied(f) ==
  /\ mode = "deny"
  /\ Admitted(f)
  /\ Charge(f)
  /\ UNCHANGED <<replies, inFlight, writes, answers, targets, saving>>

\* ask-human: the slot is held until the prompt ends.
PickAsks(f, q) ==
  /\ mode = "ask-human"
  /\ q \notin waiting
  /\ Admitted(f)
  /\ Charge(f)
  /\ inFlight' = inFlight + 1
  /\ waiting' = waiting \cup {q}
  /\ UNCHANGED <<replies, writes, mode, staged, targets, saving>>

PromptEnds(q) ==
  /\ q \in waiting
  /\ waiting' = waiting \ {q}
  /\ inFlight' = inFlight - 1
  /\ UNCHANGED <<page, share, callers, replies, writes, mode, staged, saving>>

\* A human names a file, or nothing that can be used.
AnswerFile(q, p) == PromptEnds(q) /\ HandOut(p)
AnswerNone(q)    == PromptEnds(q) /\ UNCHANGED targets
PromptTimesOut(q) == PromptEnds(q) /\ UNCHANGED targets

-----------------------------------------------------------------------------
(* Writes (__browx_fs_picker_write).  Every call runs without waiting.      *)

Known(h)  == h <= minted
MayWrite  == writes >= Call
Open(h)   == ~ handle[h].closed /\ ~ handle[h].shed /\ handle[h].path # Nowhere
Others(h) == {g \in Ids \ {h} : handle[g].path = handle[h].path}

\* A call within the budget.
Write(h) ==
  /\ Known(h)
  /\ MayWrite
  /\ writes' = writes - Call
  /\ UNCHANGED <<decisions, answers, minted>>

Becomes(h, file) == files' = [files EXCEPT ![handle[h].path] = file]
File(h)          == files[handle[h].path]
Room(h)          == Len(File(h)) < MaxChunks

\* One chunk more is sent through h, or none.
CanSend(h, k) == sent[h] + k <= MaxChunks
Counts(h)     == ~ handle[h].closed /\ handle[h].path # Nowhere /\ sent[h] # Spoilt
Send(h, k)    == sent' = [sent EXCEPT ![h] = IF Counts(h) THEN @ + k ELSE @]

\* Since a truncation to that size n chunks were sent through h, and it is not
\* what the files of S are from.
Sent(h, size, n, S) ==
  /\ sent' = [g \in Ids |-> IF g \in S THEN Spoilt ELSE IF g = h THEN n ELSE sent[g]]
  /\ zeros' = [g \in Ids |-> IF g \in S THEN 0 ELSE IF g = h THEN size ELSE zeros[g]]

NextChunk(h) == IF sent[h] = Spoilt THEN Other ELSE [by |-> h, n |-> sent[h] + 1]

\* The first chunk replaces the file, the next ones are appended.
Land(h) ==
  /\ Becomes(h, IF handle[h].truncated THEN Append(File(h), NextChunk(h))
                 ELSE << NextChunk(h) >>)
  /\ handle' = [handle EXCEPT ![h].truncated = TRUE]

WriteChunk(h) ==
  /\ Write(h)
  /\ Open(h) /\ Room(h) /\ CanSend(h, 1)
  /\ Land(h)
  /\ Sent(h, zeros[h], IF sent[h] = Spoilt THEN Spoilt ELSE sent[h] + 1, Others(h))
  /\ UNCHANGED saved

\* A Blob: what reaches the server is not a string, decodeChunk throws, and the
\* page is told it was written.
WriteBlob(h) ==
  /\ Write(h)
  /\ Open(h)
  /\ Sent(h, 0, 0, {h})
  /\ UNCHANGED <<handle, files, saved>>

\* The file is replaced by zeros of that size, whatever it held.
Truncate(h, size) ==
  /\ Write(h)
  /\ Open(h)
  /\ Becomes(h, [i \in 1 .. size |-> Zero])
  /\ handle' = [handle EXCEPT ![h].truncated = TRUE]
  /\ IF sent[h] = Spoilt THEN Sent(h, 0, Spoilt, Others(h)) ELSE Sent(h, size, 0, Others(h))
  /\ UNCHANGED saved

\* The disk refuses a chunk or a truncation, wholly or half way; the page is
\* told it was done.
DiskFails(h) ==
  /\ Write(h)
  /\ Open(h) /\ Room(h)
  /\ \E left \in {File(h), << >>, Append(File(h), Other)} : Becomes(h, left)
  /\ Sent(h, 0, 0, Others(h) \cup {h})
  /\ UNCHANGED <<handle, saved>>

\* Nothing is done, and the page is told it was: a seek, a truncation to what is
\* not a size, and all that comes for a handle without a destination or one that
\* is closed, a second writable of the same file included.
WriteIgnored(h) ==
  /\ Write(h)
  /\ ~ handle[h].shed
  /\ UNCHANGED <<handle, saving>>

\* The call throws, as a chunk was dropped before.
WriteRejected(h) ==
  /\ Write(h)
  /\ handle[h].shed
  /\ \E k \in {0, 1} : CanSend(h, k) /\ Send(h, k)
  /\ UNCHANGED <<handle, files, zeros, saved>>

Close(h) ==
  /\ Write(h)
  /\ handle[h].path # Nowhere
  /\ handle' = [handle EXCEPT ![h].closed = TRUE, ![h].truncated = TRUE]
  /\ IF handle[h].truncated THEN UNCHANGED <<files, sent, zeros>>
     ELSE Becomes(h, << >>) /\ Sent(h, zeros[h], sent[h], Others(h))
  /\ saved' = IF handle[h].shed THEN saved ELSE saved \cup {h}

\* The empty file cannot be made; the page is told it was, dropped chunks or not.
CloseFails(h) ==
  /\ Write(h)
  /\ handle[h].path # Nowhere /\ ~ handle[h].truncated
  /\ handle' = [handle EXCEPT ![h].closed = TRUE]
  /\ saved' = saved \cup {h}
  /\ Sent(h, 0, 0, {h})
  /\ UNCHANGED files

\* abort, and close of a handle without a destination.
Abort(h) ==
  /\ Write(h)
  /\ handle' = [handle EXCEPT ![h].closed = TRUE]
  /\ UNCHANGED saving

\* Broken variant: the handle is not marked.
ShedUnmarked(h) ==
  /\ Known(h)
  /\ ~ MayWrite
  /\ \E k \in {0, 1} : CanSend(h, k) /\ Send(h, k)
  /\ UNCHANGED <<decisions, writes, answers, targets, files, zeros, saved>>

\* A call over budget is dropped, whatever it was; the page waits for ever.
WriteShed(h) ==
  /\ Known(h)
  /\ ~ MayWrite
  /\ \E k \in {0, 1} : CanSend(h, k) /\ Send(h, k)
  /\ handle' = [handle EXCEPT ![h].shed = TRUE]
  /\ UNCHANGED <<decisions, writes, answers, minted, files, zeros, saved>>

-----------------------------------------------------------------------------
Next ==
  \/ Tick
  \/ \E f \in Frames :
       \/ PickShed(f) \/ PickAllowed(f) \/ PickDenied(f)
       \/ \E q \in Prompts : PickAsks(f, q)
  \/ \E m \in Modes : SetPolicy(m)
  \/ \E p \in Paths : Respond(p)
  \/ \E q \in Prompts :
       \/ AnswerNone(q) \/ PromptTimesOut(q)
       \/ \E p \in Paths : AnswerFile(q, p)
  \/ \E h \in Ids :
       \/ WriteChunk(h) \/ WriteBlob(h) \/ DiskFails(h)
       \/ \E size \in 0 .. MaxSize : Truncate(h, size)
       \/ WriteIgnored(h) \/ WriteRejected(h) \/ WriteShed(h)
       \/ Close(h) \/ CloseFails(h) \/ Abort(h)

Spec == Init /\ [][Next]_vars

-----------------------------------------------------------------------------
(* Properties.                                                              *)

\* A frame with a token of its own is not refused for the page's budget while no
\* more than one other frame calls, however that one floods it: its share runs
\* out first (the order of the buckets in wrap, and the numbers of
\* DEFAULT_BUDGETS).  When three call, the page's budget may be gone before the
\* share of one of them is, as binding-guard.test.ts says it may.
FrameShare ==
  \A f, g \in Frames : callers \subseteq {f, g} /\ HasShare(f) => HasBudget

\* Every slot taken is owed to a prompt that waits, so every one comes back, and
\* there are never more prompts out than slots (the counts of wrap).
SlotsOwed == inFlight = Cardinality(waiting) /\ inFlight <= MaxInFlight

\* Zeros of the size of a truncation, then the first n chunks sent after it.
Content(h, size, n) ==
  [i \in 1 .. size + n |-> IF i <= size THEN Zero ELSE [by |-> h, n |-> i - size]]
Touched(h) == handle[h].path # Nowhere /\ handle[h].truncated

\* Leaving aside Blobs, a disk that fails, and files that another handle writes
\* to: a file holds, after the zeros its last truncation replaced it by, the
\* chunks sent through its handle since then up to the first that was dropped, in
\* order and without a hole; and when a close is reported to have succeeded, all
\* that were sent before the handle was first closed (the shed hook and the checks
\* of `shed` and `closed`).
SavedIsWhole ==
  \A h \in Ids : Touched(h) /\ sent[h] # Spoilt =>
    \E n \in 0 .. sent[h] :
      File(h) = Content(h, zeros[h], n) /\ (h \in saved => n = sent[h])

\* Documented: a write settles only after it reached the disk (the comment in the
\* page script).  Blobs and what the disk refuses are acknowledged as well, and so
\* is what comes after a close.
SettledMeansWritten == \A h \in saved : Others(h) = {} => sent[h] # Spoilt

\* What a page expects of truncate(size): what lies below the size stays.  The
\* code writes zeros over it.
TruncationKeeps ==
  [][\A h \in Ids, size \in 0 .. MaxSize : Truncate(h, size) =>
       \A i \in 1 .. size : i <= Len(File(h)) => File(h)'[i] = File(h)[i]]_vars
=============================================================================
