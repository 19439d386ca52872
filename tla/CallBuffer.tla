----------------------------- MODULE CallBuffer -----------------------------
(***************************************************************************)
(* The synchronous calls of the WASI runtime (wasi/callbuffer.ts).  The    *)
(* guest's thread posts a call to the worker that owns the connection to   *)
(* the kernel and sleeps on a word of shared memory.  The worker handles   *)
(* the call asynchronously, stores the answer in the shared buffer and     *)
(* then raises the word.                                                   *)
(*                                                                         *)
(* A tag stands for what tells a call from the one before it; an answer is *)
(* the tag of the call it answers.  The contents of calls and answers are  *)
(* in WasiWorker, which performs its steps together with those below.      *)
(***************************************************************************)

CONSTANT Tags

VARIABLES
  waiting,    \* the guest sleeps in Atomics.wait
  tag,        \* the guest's last call
  mail,       \* calls posted and not yet handled
  serving,    \* calls the kernel has carried out
  stored,     \* calls whose answer is in the buffer, the word not yet raised
  flag,       \* ctrl[0]
  cell,       \* whose answer len and data hold
  lost        \* a call that nobody answers: the kernel refused it, or its
              \* answer is larger than the buffer

bufferVars == <<waiting, tag, mail, serving, stored, flag, cell, lost>>

TagsAssumption == \A t \in Tags : Tags \ {t} # {}

BufferTypeOK ==
  /\ waiting \in BOOLEAN /\ lost \in BOOLEAN
  /\ tag \in Tags /\ cell \in Tags
  /\ flag \in {0, 1}
  /\ mail \subseteq Tags /\ serving \subseteq Tags /\ stored \subseteq Tags

BufferInit ==
  /\ waiting = FALSE /\ lost = FALSE
  /\ tag \in Tags /\ cell = tag
  /\ flag = 0
  /\ mail = {} /\ serving = {} /\ stored = {}

\* Mutant: the word keeps the value the last answer gave it.
CallKeepsFlag ==
  /\ ~waiting
  /\ waiting' = TRUE
  /\ tag' \in Tags \ {tag}
  /\ mail' = mail \cup {tag'}
  /\ UNCHANGED <<serving, stored, flag, cell, lost>>

\* call(): lower the word, post the message, wait.  Nothing can come in
\* between, since nobody but the handler of a posted call touches the buffer.
Call ==
  /\ ~waiting
  /\ waiting' = TRUE
  /\ tag' \in Tags \ {tag}
  /\ mail' = mail \cup {tag'}
  /\ flag' = 0
  /\ UNCHANGED <<serving, stored, cell, lost>>

\* The handler of a message has its answer from the kernel, or an exception
\* that ends it.
Serve(t, succeeds) ==
  /\ t \in mail
  /\ mail' = mail \ {t}
  /\ serving' = IF succeeds THEN serving \cup {t} ELSE serving
  /\ lost' = (lost \/ ~succeeds)
  /\ UNCHANGED <<waiting, tag, stored, flag, cell>>

\* respond(), first half: length and data.
StoreAnswer(t) ==
  /\ t \in serving
  /\ serving' = serving \ {t}
  /\ stored' = stored \cup {t}
  /\ cell' = t
  /\ UNCHANGED <<waiting, tag, mail, flag, lost>>

\* An answer larger than the buffer (the code: "TODO: check if it exceeds the
\* buffer size") makes data.set throw, and respond() ends before it raises the
\* word.  Bytes are cut before, so it is a long listing that does it.
AnswerThrows(t) ==
  /\ t \in serving
  /\ serving' = serving \ {t}
  /\ lost' = TRUE
  /\ UNCHANGED <<waiting, tag, mail, stored, flag, cell>>

\* Mutant: the sleeper is notified and the word left as it is.
RaiseFlagNotifyOnly(t) ==
  /\ t \in stored
  /\ stored' = stored \ {t}
  /\ UNCHANGED <<waiting, tag, mail, serving, flag, cell, lost>>

\* respond(), second half: Atomics.store and notify.
RaiseFlag(t) ==
  /\ t \in stored
  /\ stored' = stored \ {t}
  /\ flag' = 1
  /\ UNCHANGED <<waiting, tag, mail, serving, cell, lost>>

\* Atomics.wait returns and the guest decodes what the buffer holds.
Wake ==
  /\ waiting /\ flag = 1
  /\ waiting' = FALSE
  /\ UNCHANGED <<tag, mail, serving, stored, flag, cell, lost>>

BufferNext ==
  \/ Call \/ Wake
  \/ \E t \in Tags :
       \/ \E succeeds \in BOOLEAN : Serve(t, succeeds)
       \/ StoreAnswer(t) \/ AnswerThrows(t) \/ RaiseFlag(t)

BufferSpec == BufferInit /\ [][BufferNext]_bufferVars

(***************************************************************************)
(* Properties                                                              *)
(***************************************************************************)

\* When the guest may go on, the buffer holds the whole answer to the very
\* call it made: not that of the call before, and not one half stored.
AnswerIsMine == waiting /\ flag = 1 => cell = tag /\ stored = {}

\* A guest that sleeps is owed an answer that is on its way, unless the
\* kernel refused the call or its answer did not fit.
GuestGoesOn ==
  waiting /\ flag = 0 => lost \/ tag \in mail \cup serving \cup stored
=============================================================================
