-------------------------- MODULE GracefulShutdown --------------------------
(***************************************************************************)
(* The shutdown handler of automaxfix/reliability.py (lines 16-47): the    *)
(* callbacks, the lock that guards them, and a handler that takes the same *)
(* lock in the main thread, between any two of its instructions.  Python   *)
(* runs a handler on the stack of the main thread, also inside another     *)
(* handler, and inside a lock the thread already holds or waits for.  No   *)
(* command installs the handler: the main thread here is a program that    *)
(* does, with a worker thread that registers callbacks of its own.         *)
(***************************************************************************)
EXTENDS Naturals, Sequences

CONSTANTS
  MaxCallbacks,   \* bound: callbacks registered
  MaxSignals      \* bound: signals received

ASSUME GracefulShutdownAssumption == MaxCallbacks \in Nat /\ MaxSignals \in Nat

Signals == {"TERM", "INT"}
Threads == {"main", "worker"}
Places == {"out", "append", "release"}
Install == {"check", "term", "int", "flag", "done"}

\* One activation of _handler: what is left of its copy of the callbacks, and
\* (history) how many callbacks were registered when the signal arrived.
Frame == [at : {"enter", "calls", "exit"}, left : Seq(Nat), due : Nat]

VARIABLES
  lock,        \* _shutdown_lock: "free", a thread's name, or "handler"
  callbacks,   \* _shutdown_callbacks, each named by its number
  installed,   \* _shutdown_installed
  handled,     \* signals whose handler is _handler
  install,     \* where install_graceful_shutdown is
  at,          \* where each thread is in register_shutdown_callback
  frames,      \* handlers under way, the innermost one last
  ran,         \* history: callbacks that have been called
  process,     \* "up", "exited" by the handler, or "killed" by default
  signals      \* bounded counter

vars == <<lock, callbacks, installed, handled, install, at, frames, ran, process, signals>>

Up == process = "up"
Runs(t) == Up /\ (t = "main" => frames = <<>>)
Top == frames[Len(frames)]
Handling(l) == Up /\ frames # <<>> /\ Top.at = l
SetTop(f) == frames' = [frames EXCEPT ![Len(frames)] = f]

Init ==
  /\ lock = "free" /\ callbacks = <<>>
  /\ installed = FALSE /\ handled = {} /\ install = "check"
  /\ at = [t \in Threads |-> "out"]
  /\ frames = <<>> /\ ran = {} /\ process = "up" /\ signals = 0

-----------------------------------------------------------------------------
\* register_shutdown_callback, by either thread.
Acquire(t) ==
  /\ Runs(t) /\ at[t] = "out" /\ lock = "free" /\ Len(callbacks) < MaxCallbacks
  /\ lock' = t /\ at' = [at EXCEPT ![t] = "append"]
  /\ UNCHANGED <<callbacks, installed, handled, install, frames, ran, process, signals>>

Register(t) ==
  /\ Runs(t) /\ at[t] = "append"
  /\ callbacks' = Append(callbacks, Len(callbacks) + 1)
  /\ at' = [at EXCEPT ![t] = "release"]
  /\ UNCHANGED <<lock, installed, handled, install, frames, ran, process, signals>>

\* Mutant: a registration that keeps the lock.
KeepLock(t) ==
  /\ Runs(t) /\ at[t] = "release"
  /\ at' = [at EXCEPT ![t] = "out"]
  /\ UNCHANGED <<lock, callbacks, installed, handled, install, frames, ran, process, signals>>

ReleaseLock(t) ==
  /\ Runs(t) /\ at[t] = "release"
  /\ lock' = "free" /\ at' = [at EXCEPT ![t] = "out"]
  /\ UNCHANGED <<callbacks, installed, handled, install, frames, ran, process, signals>>

\* install_graceful_shutdown: one handler after the other, the flag last.
InstallStep ==
  /\ Runs("main") /\ at["main"] = "out"
  /\ \/ /\ install = "check"
        /\ install' = IF installed THEN "done" ELSE "term"
        /\ UNCHANGED <<installed, handled>>
     \/ install = "term" /\ install' = "int" /\ handled' = handled \cup {"TERM"}
          /\ UNCHANGED installed
     \/ install = "int" /\ install' = "flag" /\ handled' = handled \cup {"INT"}
          /\ UNCHANGED installed
     \/ install = "flag" /\ install' = "done" /\ installed' = TRUE /\ UNCHANGED handled
  /\ UNCHANGED <<lock, callbacks, at, frames, ran, process, signals>>

\* ValueError or OSError: the program goes on with what it has installed.
InstallFails ==
  /\ Runs("main") /\ install \in {"term", "int"}
  /\ install' = "done"
  /\ UNCHANGED <<lock, callbacks, installed, handled, at, frames, ran, process, signals>>

-----------------------------------------------------------------------------
\* A signal: a new handler on top of whatever the main thread is doing, also
\* while it waits for the lock; without a handler the default ends the process.
Signal(s) ==
  /\ Up /\ signals < MaxSignals
  /\ signals' = signals + 1
  /\ IF s \in handled
     THEN /\ frames' = Append(frames, [at |-> "enter", left |-> <<>>, due |-> Len(callbacks)])
          /\ UNCHANGED process
     ELSE process' = "killed" /\ UNCHANGED frames
  /\ UNCHANGED <<lock, callbacks, installed, handled, install, at, ran>>

\* Mutant: the handler calls the callbacks without taking the lock.
EnterUnlocked ==
  /\ Handling("enter")
  /\ lock' = "handler"
  /\ SetTop([Top EXCEPT !.at = "calls", !.left = callbacks])
  /\ UNCHANGED <<callbacks, installed, handled, install, at, ran, process, signals>>

\* with _shutdown_lock, and list(_shutdown_callbacks).
Enter ==
  /\ Handling("enter") /\ lock = "free"
  /\ lock' = "handler"
  /\ SetTop([Top EXCEPT !.at = "calls", !.left = callbacks])
  /\ UNCHANGED <<callbacks, installed, handled, install, at, ran, process, signals>>

\* Mutant: an exception of a callback ends the loop.
CallAndStop ==
  /\ Handling("calls") /\ Top.left # <<>>
  /\ ran' = ran \cup {Head(Top.left)}
  /\ \E raised \in BOOLEAN :
       SetTop([Top EXCEPT !.left = IF raised THEN <<>> ELSE Tail(@)])
  /\ UNCHANGED <<lock, callbacks, installed, handled, install, at, process, signals>>

\* One callback: whether it returns or raises an Exception, the next one follows.
Call ==
  /\ Handling("calls") /\ Top.left # <<>>
  /\ ran' = ran \cup {Head(Top.left)}
  /\ SetTop([Top EXCEPT !.left = Tail(@)])
  /\ UNCHANGED <<lock, callbacks, installed, handled, install, at, process, signals>>

Leave ==
  /\ Handling("calls") /\ Top.left = <<>>
  /\ lock' = "free"
  /\ SetTop([Top EXCEPT !.at = "exit"])
  /\ UNCHANGED <<callbacks, installed, handled, install, at, ran, process, signals>>

\* Mutant: only the outermost handler ends the process, in a way of its own.
ExitLast ==
  /\ Handling("exit") /\ Len(frames) = 1
  /\ process' = "down"
  /\ UNCHANGED <<lock, callbacks, installed, handled, install, at, frames, ran, signals>>

\* SystemExit unwinds the handlers and the code below: none of them catches it.
SysExit ==
  /\ Handling("exit")
  /\ process' = "exited"
  /\ UNCHANGED <<lock, callbacks, installed, handled, install, at, frames, ran, signals>>

-----------------------------------------------------------------------------
HandlerStep == Enter \/ Call \/ Leave \/ SysExit
Registration(t) == Register(t) \/ ReleaseLock(t)

Next ==
  \/ \E t \in Threads : Acquire(t) \/ Registration(t)
  \/ InstallStep \/ InstallFails \/ HandlerStep
  \/ \E s \in Signals : Signal(s)

Spec == Init /\ [][Next]_vars

\* The handler's code and a registration that has the lock take no time that
\* is not bounded (the callbacks are taken to return).
FairSpec == Spec /\ WF_vars(HandlerStep) /\ \A t \in Threads : WF_vars(Registration(t))

-----------------------------------------------------------------------------
TypeOK ==
  /\ lock \in Threads \cup {"free", "handler"}
  /\ callbacks \in Seq(Nat) /\ ran \subseteq Nat
  /\ installed \in BOOLEAN /\ handled \subseteq Signals /\ install \in Install
  /\ at \in [Threads -> Places] /\ frames \in Seq(Frame)
  /\ process \in {"up", "exited", "killed"} /\ signals \in Nat

\* The callbacks are never at work twice at the same time, nor while one is
\* being registered, however many signals arrive (reliability.py:23-24, 33-34).
CallbacksAreNotReentered ==
  \A i \in DOMAIN frames : frames[i].at = "calls" =>
    /\ \A j \in DOMAIN frames : frames[j].at = "calls" => i = j
    /\ \A t \in Threads : at[t] = "out"

\* When the handler ends the process, every callback registered before any of
\* the signals under way has been called, whichever callbacks raised and
\* whichever handler got to the end first (reliability.py:34-39).
ExitIsAfterAllCallbacks ==
  process = "exited" =>
    \A i \in DOMAIN frames : \A c \in 1..frames[i].due : c \in ran

\* The innermost handler waits for a lock that its own thread holds, below it:
\* in a registration, or in a handler that a second signal interrupted.
SelfBlocked ==
  Handling("enter") /\ lock \in {"main", "handler"}

\* A signal that has its handler ends the process, unless the handler waits for
\* a lock held by the very thread it runs on: that one is never released
\* (reliability.py:18, 33: a Lock, not an RLock).
SignalEndsProcessOrBlocks ==
  frames # <<>> ~> (~Up \/ SelfBlocked)
=============================================================================
