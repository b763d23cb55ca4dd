----------------------- MODULE GracefulShutdownProofs -----------------------
(***************************************************************************)
(* Proofs about GracefulShutdown, for any number of callbacks, signals and *)
(* nested handlers.                                                        *)
(***************************************************************************)
EXTENDS GracefulShutdown, TLAPS

USE GracefulShutdownAssumption

\* Setting the last handler's frame leaves a sequence of frames, the others as
\* they were.
LEMMA SetTopType ==
  ASSUME frames \in Seq(Frame), frames # <<>>, NEW f \in Frame, SetTop(f)
  PROVE  /\ frames' \in Seq(Frame) /\ Len(frames') = Len(frames)
         /\ frames'[Len(frames)] = f
         /\ \A i \in DOMAIN frames : i # Len(frames) => frames'[i] = frames[i]
  BY DEF SetTop

\* The handler in charge is one of the frames.
LEMMA TopType ==
  ASSUME frames \in Seq(Frame), frames # <<>>
  PROVE  Top \in Frame /\ Len(frames) \in DOMAIN frames
  BY DEF Top

LEMMA FramesType ==
  ASSUME frames \in Seq(Frame)
  PROVE  \A i \in DOMAIN frames : frames[i].due \in Nat /\ frames[i].left \in Seq(Nat)
<1>1. \A i \in DOMAIN frames : frames[i] \in Frame
  OBVIOUS
<1>2. QED
  BY <1>1 DEF Frame

\* The frames that the steps of the handler write.
LEMMA FrameUpdates ==
  ASSUME NEW f \in Frame, NEW s \in Seq(Nat)
  PROVE  /\ [f EXCEPT !.at = "calls", !.left = s] \in Frame
         /\ [f EXCEPT !.left = s] \in Frame
         /\ [f EXCEPT !.at = "exit"] \in Frame
  BY DEF Frame

\* What each step of the handler in charge does to the stack of frames.
OnlyTop(f) ==
  /\ frames' \in Seq(Frame) /\ DOMAIN frames' = DOMAIN frames
  /\ Len(frames') = Len(frames) /\ Len(frames) \in DOMAIN frames
  /\ frames[Len(frames)] = Top /\ Top \in Frame
  /\ frames'[Len(frames)] = f /\ f \in Frame
  /\ \A i \in DOMAIN frames : i # Len(frames) => frames'[i] = frames[i]

LEMMA EnterStep ==
  ASSUME TypeOK, Enter
  PROVE  /\ OnlyTop([Top EXCEPT !.at = "calls", !.left = callbacks])
         /\ Top.at = "enter" /\ lock = "free"
<1>1. Top \in Frame /\ Len(frames) \in DOMAIN frames /\ frames \in Seq(Frame)
  BY TopType DEF TypeOK, Enter, Handling
<1>2. [Top EXCEPT !.at = "calls", !.left = callbacks] \in Frame
  BY <1>1, FrameUpdates DEF TypeOK
<1>3. QED
  BY <1>1, <1>2, SetTopType DEF Enter, Handling, OnlyTop, Top

LEMMA CallStep ==
  ASSUME TypeOK, Call
  PROVE  /\ OnlyTop([Top EXCEPT !.left = Tail(Top.left)])
         /\ Top.at = "calls" /\ Top.left \in Seq(Nat) /\ Top.left # <<>>
<1>1. Top \in Frame /\ Len(frames) \in DOMAIN frames /\ frames \in Seq(Frame)
  BY TopType DEF TypeOK, Call, Handling
<1>2. Top.left \in Seq(Nat) /\ Tail(Top.left) \in Seq(Nat)
  BY <1>1 DEF Call, Frame
<1>3. [Top EXCEPT !.left = Tail(Top.left)] \in Frame
  BY <1>1, <1>2, FrameUpdates
<1>4. QED
  BY <1>1, <1>2, <1>3, SetTopType DEF Call, Handling, OnlyTop, Top

LEMMA LeaveStep ==
  ASSUME TypeOK, Leave
  PROVE  /\ OnlyTop([Top EXCEPT !.at = "exit"])
         /\ Top.at = "calls" /\ Top.left = <<>>
<1>1. Top \in Frame /\ Len(frames) \in DOMAIN frames /\ frames \in Seq(Frame)
  BY TopType DEF TypeOK, Leave, Handling
<1>2. [Top EXCEPT !.at = "exit"] \in Frame
  BY <1>1 DEF Frame
<1>3. QED
  BY <1>1, <1>2, SetTopType DEF Leave, Handling, OnlyTop, Top

\* A signal puts one more frame on the stack, or none.
LEMMA SignalStep ==
  ASSUME TypeOK, NEW s \in Signals, Signal(s)
  PROVE  \/ frames' = frames /\ process' = "killed"
         \/ /\ frames' \in Seq(Frame) /\ process' = process
            /\ DOMAIN frames' = DOMAIN frames \cup {Len(frames) + 1}
            /\ Len(frames') = Len(frames) + 1
            /\ frames'[Len(frames) + 1] =
                 [at |-> "enter", left |-> <<>>, due |-> Len(callbacks)]
            /\ \A i \in DOMAIN frames : frames'[i] = frames[i]
<1> DEFINE new == [at |-> "enter", left |-> <<>>, due |-> Len(callbacks)]
<1>1. new \in Frame
  BY DEF TypeOK, Frame
<1>2. CASE s \in handled
  <2>1. frames' = Append(frames, new) /\ process' = process
    BY <1>2 DEF Signal
  <2>2. QED
    BY <1>1, <2>1 DEF TypeOK
<1>3. QED
  BY <1>2 DEF Signal

\* The state stays well typed (reliability.py:16-47).
THEOREM Typing == Spec => []TypeOK
<1> USE DEF Signals, Threads, Places, Install
<1>1. Init => TypeOK
  <2> SUFFICES ASSUME Init PROVE TypeOK
    OBVIOUS
  <2>1. <<>> \in Seq(Nat) /\ <<>> \in Seq(Frame)
    OBVIOUS
  <2>2. QED
    BY <2>1 DEF Init, TypeOK
<1>2. TypeOK /\ [Next]_vars => TypeOK'
  <2> SUFFICES ASSUME TypeOK, [Next]_vars PROVE TypeOK'
    OBVIOUS
  <2>1. ASSUME NEW t \in Threads, Acquire(t) \/ Registration(t) PROVE TypeOK'
    <3>1. Append(callbacks, Len(callbacks) + 1) \in Seq(Nat)
      BY DEF TypeOK
    <3>2. CASE Acquire(t)
      BY <3>2 DEF TypeOK, Acquire
    <3>3. CASE Register(t)
      BY <3>1, <3>3 DEF TypeOK, Register
    <3>4. CASE ReleaseLock(t)
      BY <3>4 DEF TypeOK, ReleaseLock
    <3>5. QED
      BY <2>1, <3>2, <3>3, <3>4 DEF Registration
  <2>2. CASE InstallStep \/ InstallFails
    BY <2>2 DEF TypeOK, InstallStep, InstallFails
  <2>3. CASE Enter
    BY <2>3, EnterStep DEF TypeOK, Enter, OnlyTop
  <2>4. CASE Call
    <3>1. Head(Top.left) \in Nat
      BY <2>4, CallStep
    <3>2. QED
      BY <2>4, <3>1, CallStep DEF TypeOK, Call, OnlyTop
  <2>5. CASE Leave
    BY <2>5, LeaveStep DEF TypeOK, Leave, OnlyTop
  <2>6. CASE SysExit
    BY <2>6 DEF TypeOK, SysExit
  <2>7. ASSUME NEW s \in Signals, Signal(s) PROVE TypeOK'
    BY <2>7, SignalStep DEF TypeOK, Signal
  <2>8. CASE UNCHANGED vars
    BY <2>8 DEF TypeOK, vars
  <2>9. QED
    BY <2>1, <2>2, <2>3, <2>4, <2>5, <2>6, <2>7, <2>8 DEF Next, HandlerStep
<1>3. QED
  BY <1>1, <1>2, PTL DEF Spec

-----------------------------------------------------------------------------
\* Who is inside the lock: a handler at its callbacks, or a thread registering.
LockInv ==
  /\ \A i \in DOMAIN frames : frames[i].at = "calls" =>
       lock = "handler" /\ \A j \in DOMAIN frames : frames[j].at = "calls" => i = j
  /\ \A t \in Threads : at[t] # "out" => lock = t

\* The callbacks are numbered in order; a handler has called those it no longer
\* has to, and outer handlers know no more callbacks than inner ones.
CalledInv ==
  /\ \A i \in DOMAIN callbacks : callbacks[i] = i
  /\ \A i \in DOMAIN frames : frames[i].due <= Len(callbacks)
  /\ \A i, j \in DOMAIN frames : i <= j => frames[i].due <= frames[j].due
  /\ \A i \in DOMAIN frames : \A c \in 1..frames[i].due :
       \/ frames[i].at = "enter" \/ c \in ran
       \/ frames[i].at = "calls" /\ \E k \in DOMAIN frames[i].left : frames[i].left[k] = c
  /\ process = "exited" => frames # <<>> /\ Top.at = "exit"

\* The lock keeps the callbacks from being called twice at once, whatever
\* signals interrupt (reliability.py:23-24, 33-34).
THEOREM Exclusion == Spec => []CallbacksAreNotReentered
<1> USE DEF Threads
<1>1. Init => LockInv
  BY DEF Init, LockInv
<1>2. TypeOK /\ LockInv /\ [Next]_vars => LockInv'
  <2> SUFFICES ASSUME TypeOK, LockInv, [Next]_vars PROVE LockInv'
    OBVIOUS
  <2> USE DEF LockInv
  <2>1. ASSUME NEW t \in Threads, Acquire(t) \/ Registration(t) PROVE LockInv'
    BY <2>1 DEF TypeOK, Acquire, Registration, Register, ReleaseLock
  <2>2. CASE InstallStep \/ InstallFails \/ SysExit \/ UNCHANGED vars
    BY <2>2 DEF InstallStep, InstallFails, SysExit, vars
  <2>3. CASE Enter
    <3>1. \A i \in DOMAIN frames : frames[i].at # "calls"
      BY <2>3 DEF Enter
    <3>2. QED
      BY <2>3, <3>1, EnterStep DEF TypeOK, Enter, OnlyTop
  <2>4. CASE Call
    <3>1. \A i \in DOMAIN frames : frames'[i].at = frames[i].at
      BY <2>4, CallStep DEF OnlyTop, Frame
    <3>2. QED
      BY <2>4, <3>1, CallStep DEF Call, OnlyTop
  <2>5. CASE Leave
    <3>1. frames'[Len(frames)].at = "exit"
      BY <2>5, LeaveStep DEF OnlyTop, Frame
    <3>2. \A i \in DOMAIN frames : frames'[i].at # "calls"
      BY <2>5, <3>1, LeaveStep DEF OnlyTop
    <3>3. lock = "handler" /\ at' = at /\ DOMAIN frames' = DOMAIN frames
      BY <2>5, LeaveStep DEF OnlyTop, Leave
    <3>4. QED
      BY <3>2, <3>3
  <2>6. ASSUME NEW s \in Signals, Signal(s) PROVE LockInv'
    BY <2>6, SignalStep DEF Signal
  <2>7. QED
    BY <2>1, <2>2, <2>3, <2>4, <2>5, <2>6 DEF Next, HandlerStep
<1>3. LockInv => CallbacksAreNotReentered
  BY DEF LockInv, CallbacksAreNotReentered
<1>4. QED
  BY <1>1, <1>2, <1>3, Typing, PTL DEF Spec

\* The handler ends the process after every callback it knew of: also when a
\* signal interrupts it and the inner handler ends the process first
\* (reliability.py:34-39).
THEOREM ExitAfterCallbacks == Spec => []ExitIsAfterAllCallbacks
<1>1. Init => CalledInv
  BY DEF Init, CalledInv
<1>2. TypeOK /\ CalledInv /\ [Next]_vars => CalledInv'
  <2> SUFFICES ASSUME TypeOK, CalledInv, [Next]_vars PROVE CalledInv'
    OBVIOUS
  <2>1. ASSUME NEW t \in Threads, Acquire(t) \/ ReleaseLock(t) PROVE CalledInv'
    BY <2>1 DEF CalledInv, Acquire, ReleaseLock, Top
  <2>2. ASSUME NEW t \in Threads, Register(t) PROVE CalledInv'
    <3>1. /\ Len(callbacks') = Len(callbacks) + 1
          /\ \A i \in DOMAIN callbacks' : callbacks'[i] = i
      BY <2>2 DEF TypeOK, CalledInv, Register
    <3>2. Len(callbacks) \in Nat /\ \A i \in DOMAIN frames : frames[i].due \in Nat
      BY FramesType DEF TypeOK
    <3>3. QED
      BY <2>2, <3>1, <3>2 DEF CalledInv, Register, Top
  <2>3. CASE InstallStep \/ InstallFails \/ UNCHANGED vars
    BY <2>3 DEF CalledInv, InstallStep, InstallFails, vars, Top
  <2>4. CASE Enter
    <3> DEFINE n == Len(frames)
    <3>1. /\ frames'[n].at = "calls" /\ frames'[n].left = callbacks
          /\ frames'[n].due = frames[n].due
      BY <2>4, EnterStep DEF OnlyTop, Frame
    <3>2. \A c \in 1..frames[n].due : c \in DOMAIN callbacks /\ callbacks[c] = c
      BY <2>4, EnterStep DEF TypeOK, CalledInv, OnlyTop, Frame
    <3>3. \A i \in DOMAIN frames : frames'[i].due = frames[i].due
      BY <2>4, <3>1, EnterStep DEF OnlyTop
    <3>4. DOMAIN frames' = DOMAIN frames
          /\ \A i \in DOMAIN frames : i # n => frames'[i] = frames[i]
      BY <2>4, EnterStep DEF OnlyTop
    <3>5. callbacks' = callbacks /\ ran' = ran /\ process' = process /\ process # "exited"
      BY <2>4 DEF Enter, Handling, Up
    <3>6. QED
      BY <3>1, <3>2, <3>3, <3>4, <3>5 DEF CalledInv
  <2>5. CASE Call
    <3> DEFINE n == Len(frames)
               l == frames[n].left
    <3>1. /\ frames'[n].at = "calls" /\ frames[n].at = "calls"
          /\ frames'[n].left = Tail(l) /\ frames'[n].due = frames[n].due
      BY <2>5, CallStep DEF OnlyTop, Frame
    <3>2. /\ l \in Seq(Nat) /\ l # <<>> /\ n \in DOMAIN frames
          /\ ran' = ran \cup {l[1]}
      BY <2>5, CallStep DEF OnlyTop, Call
    <3>3. \A k \in DOMAIN l : k = 1 \/ (k - 1 \in DOMAIN Tail(l) /\ Tail(l)[k - 1] = l[k])
      BY <3>2
    <3>4. ASSUME NEW c \in 1..frames[n].due
          PROVE  c \in ran' \/ \E k \in DOMAIN Tail(l) : Tail(l)[k] = c
      <4>1. c \in ran \/ \E k \in DOMAIN l : l[k] = c
        BY <3>1, <3>2 DEF CalledInv
      <4>2. QED
        BY <3>2, <3>3, <4>1
    <3>5. DOMAIN frames' = DOMAIN frames
          /\ \A i \in DOMAIN frames : i # n => frames'[i] = frames[i]
      BY <2>5, CallStep DEF OnlyTop
    <3>6. callbacks' = callbacks /\ process' = process /\ process # "exited"
      BY <2>5 DEF Call, Handling, Up
    <3>7. \A i \in DOMAIN frames : frames'[i].due = frames[i].due
      BY <3>1, <3>5
    <3>8. \A i \in DOMAIN frames' : \A c \in 1..frames'[i].due :
             \/ frames'[i].at = "enter" \/ c \in ran'
             \/ frames'[i].at = "calls" /\ \E k \in DOMAIN frames'[i].left : frames'[i].left[k] = c
      <4> SUFFICES ASSUME NEW i \in DOMAIN frames, NEW c \in 1..frames[i].due
                   PROVE  \/ frames'[i].at = "enter" \/ c \in ran'
                          \/ /\ frames'[i].at = "calls"
                             /\ \E k \in DOMAIN frames'[i].left : frames'[i].left[k] = c
        BY <3>5, <3>7
      <4>1. CASE i = n
        BY <4>1, <3>1, <3>4
      <4>2. CASE i # n
        BY <4>2, <3>2, <3>5 DEF CalledInv
      <4>3. QED
        BY <4>1, <4>2
    <3>9. QED
      BY <3>5, <3>6, <3>7, <3>8 DEF CalledInv
  <2>6. CASE Leave
    <3> DEFINE n == Len(frames)
    <3>1. /\ frames'[n].at = "exit" /\ frames[n].at = "calls"
          /\ frames[n].left = <<>> /\ frames'[n].due = frames[n].due
      BY <2>6, LeaveStep DEF OnlyTop, Frame
    <3>2. \A c \in 1..frames[n].due : c \in ran
      BY <2>6, <3>1, LeaveStep DEF CalledInv, OnlyTop
    <3>3. DOMAIN frames' = DOMAIN frames
          /\ \A i \in DOMAIN frames : i # n => frames'[i] = frames[i]
      BY <2>6, LeaveStep DEF OnlyTop
    <3>4. /\ callbacks' = callbacks /\ ran' = ran
          /\ process' = process /\ process # "exited"
      BY <2>6 DEF Leave, Handling, Up
    <3>5. QED
      BY <3>1, <3>2, <3>3, <3>4 DEF CalledInv
  <2>7. CASE SysExit
    BY <2>7 DEF CalledInv, SysExit, Handling, Top
  <2>8. ASSUME NEW s \in Signals, Signal(s) PROVE CalledInv'
    <3>1. callbacks' = callbacks /\ ran' = ran /\ process # "exited"
      BY <2>8 DEF Signal, Up
    <3>2. CASE frames' = frames /\ process' = "killed"
      BY <3>1, <3>2 DEF CalledInv
    <3>3. CASE frames' # frames \/ process' # "killed"
      <4>1. Len(callbacks) \in Nat /\ Len(frames) \in Nat
            /\ DOMAIN frames = 1..Len(frames) /\ \A i \in DOMAIN frames : frames[i].due \in Nat
        BY FramesType DEF TypeOK
      <4>2. QED
        BY <2>8, <3>1, <3>3, <4>1, SignalStep DEF CalledInv
    <3>4. QED
      BY <3>2, <3>3
  <2>9. QED
    BY <2>1, <2>2, <2>3, <2>4, <2>5, <2>6, <2>7, <2>8 DEF Next, HandlerStep, Registration
<1>3. TypeOK /\ CalledInv => ExitIsAfterAllCallbacks
  <2> SUFFICES ASSUME TypeOK, CalledInv, process = "exited",
                      NEW i \in DOMAIN frames, NEW c \in 1..frames[i].due
               PROVE  c \in ran
    BY DEF ExitIsAfterAllCallbacks
  <2>1. frames # <<>> /\ Top.at = "exit" /\ Len(frames) \in DOMAIN frames
        /\ i <= Len(frames)
    BY TopType DEF TypeOK, CalledInv
  <2>2. frames[i].due \in Nat /\ frames[Len(frames)].due \in Nat
    BY <2>1, FramesType DEF TypeOK
  <2>3. frames[i].due <= frames[Len(frames)].due
    BY <2>1 DEF CalledInv
  <2>4. c \in 1..frames[Len(frames)].due
    BY <2>2, <2>3
  <2>5. QED
    BY <2>1, <2>4 DEF CalledInv, Top
<1>4. QED
  BY <1>1, <1>2, <1>3, Typing, PTL DEF Spec
=============================================================================
