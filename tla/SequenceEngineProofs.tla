----------------------- MODULE SequenceEngineProofs -----------------------
(***************************************************************************)
(* What holds of SequenceEngine for every cadence, every schedule of its   *)
(* steps and any number of overlapping ticks and calls.                    *)
(***************************************************************************)
EXTENDS SequenceEngine, TLAPS

(* enroll stops after its last step: what the types need to be inductive.  *)
TypeInv == TypeOK /\ (enrolling => created < N)

LEMMA SequenceTypeStep == TypeInv /\ [Next]_vars => TypeInv'
<1> SUFFICES ASSUME TypeInv, [Next]_vars PROVE TypeInv'
  OBVIOUS
<1> USE DEF TypeInv, TypeOK, Calls, PCs, Working, Goto, TickGoto, Forget, tick, history
<1>0. 0 \in Steps /\ 0 \in 0..N
  BY SequenceAssumption DEF Steps
<1>1. ASSUME CreateStep PROVE TypeInv'
  <2>1. created + 1 \in 0..N
    BY <1>1, SequenceAssumption DEF CreateStep
  <2>2. created' \in 0..N /\ enrolling' \in BOOLEAN
    BY <1>1, <2>1 DEF CreateStep
  <2>3. enrolling' => created' < N
    BY <1>1 DEF CreateStep
  <2>4. QED
    BY <1>1, <2>2, <2>3 DEF CreateStep
<1>2. ASSUME EnrollFails PROVE TypeInv'
  <2>1. failures' \in 0..MaxFailures
    BY <1>2, SequenceAssumption DEF EnrollFails
  <2>2. QED
    BY <1>2, <2>1 DEF EnrollFails
<1>3. ASSUME Advance PROVE TypeInv'
  BY <1>3 DEF Advance
<1>4. ASSUME OptOut PROVE TypeInv'
  BY <1>4 DEF OptOut
<1>27. ASSUME Crowd PROVE TypeInv'
  BY <1>27 DEF Crowd
<1>5. ASSUME NEW c \in Tickers, ListDue(c) PROVE TypeInv'
  <2>1. todo' \in [Tickers -> SUBSET Steps]
    BY <1>5 DEF ListDue
  <2>2. QED
    BY <1>5, <2>1 DEF ListDue
<1>6. ASSUME NEW c \in Tickers, ReadSequence(c) PROVE TypeInv'
  <2>1. seq.cursor \in 0..N
    BY DEF Sequences
  <2>2. QED
    BY <1>6, <1>0, <2>1 DEF ReadSequence
<1>7. ASSUME NEW c \in Tickers, ReadSteps(c) PROVE TypeInv'
  BY <1>7, <1>0 DEF ReadSteps
<1>8. ASSUME NEW c \in Tickers, Pick(c) PROVE TypeInv'
  BY <1>8, <1>0 DEF Pick, Take, Candidates
<1>9. ASSUME NEW c \in Tickers, Gate(c) PROVE TypeInv'
  BY <1>9, <1>0 DEF Gate
<1>10. ASSUME NEW c \in Tickers, GateRefuses(c) PROVE TypeInv'
  BY <1>10, <1>0 DEF GateRefuses
<1>11. ASSUME NEW c \in Tickers, QuietHours(c) PROVE TypeInv'
  BY <1>11, <1>0 DEF QuietHours
<1>12. ASSUME NEW c \in Tickers, Deliver(c) PROVE TypeInv'
  BY <1>12, <1>0, SequenceAssumption DEF Deliver
<1>13. ASSUME NEW c \in Tickers, DeliveryFails(c) PROVE TypeInv'
  BY <1>13, <1>0 DEF DeliveryFails
<1>14. ASSUME NEW c \in Tickers, MarkStep(c) PROVE TypeInv'
  <2>1. WriteStatus[pc[c]] \in Runnable \cup {"SENT", "HELD", "FAILED"}
          /\ AfterStatus[pc[c]] \in PCs
    BY <1>14 DEF MarkStep, WriteStatus, AfterStatus, Runnable
  <2>2. QED
    BY <1>14, <1>0, <2>1 DEF MarkStep
<1>15. ASSUME NEW c \in Tickers, AdvanceCursor(c) PROVE TypeInv'
  <2>1. at[c] + 1 \in 0..N
    BY SequenceAssumption DEF Steps
  <2>2. seq' \in Sequences
    BY <1>15, <2>1 DEF AdvanceCursor, Sequences
  <2>3. QED
    BY <1>15, <1>0, <2>1, <2>2 DEF AdvanceCursor
<1>16. ASSUME NEW c \in Tickers, PauseTick(c) PROVE TypeInv'
  <2>1. seq' \in Sequences
    BY <1>16 DEF PauseTick, Sequences
  <2>2. QED
    BY <1>16, <1>0, <2>1 DEF PauseTick
<1>17. ASSUME NEW c \in Tickers, StopTick(c) PROVE TypeInv'
  <2>1. seq' \in Sequences
    BY <1>17 DEF StopTick, Sequences
  <2>2. QED
    BY <1>17, <1>0, <2>1 DEF StopTick
<1>18. ASSUME NEW c \in Tickers, TickFails(c) PROVE TypeInv'
  <2>1. failures' \in 0..MaxFailures
    BY <1>18, SequenceAssumption DEF TickFails
  <2>2. QED
    BY <1>18, <1>0, <2>1 DEF TickFails
<1>19. ASSUME NEW c \in Replies, ListActive(c) PROVE TypeInv'
  BY <1>19, <1>0 DEF ListActive
<1>20. ASSUME NEW c \in Replies, ReadForReply(c) PROVE TypeInv'
  BY <1>20, <1>0 DEF ReadForReply
<1>21. ASSUME NEW c \in Replies, PauseOnReply(c) PROVE TypeInv'
  <2>1. seq' \in Sequences
    BY <1>21 DEF PauseOnReply, Sequences
  <2>2. QED
    BY <1>21, <1>0, <2>1 DEF PauseOnReply
<1>22. ASSUME NEW c \in Resumes, ReadForResume(c) PROVE TypeInv'
  BY <1>22, <1>0 DEF ReadForResume
<1>23. ASSUME NEW c \in Resumes, Resume(c) PROVE TypeInv'
  <2>1. seq' \in Sequences
    BY <1>23 DEF Resume, Sequences
  <2>2. QED
    BY <1>23, <1>0, <2>1 DEF Resume
<1>24. ASSUME NEW c \in Stops, StopOnOptOut(c) PROVE TypeInv'
  <2>1. seq' \in Sequences
    BY <1>24 DEF StopOnOptOut, Sequences
  <2>2. QED
    BY <1>24, <1>0, <2>1 DEF StopOnOptOut
<1>25. CASE UNCHANGED vars
  BY <1>25 DEF vars
<1> HIDE DEF TypeInv, TypeOK, Calls, PCs, Working, Goto, TickGoto, Forget, tick, history
<1>26. QED
  BY <1>1, <1>2, <1>3, <1>4, <1>5, <1>6, <1>7, <1>8, <1>9, <1>10,
     <1>11, <1>12, <1>13, <1>14, <1>15, <1>16, <1>17, <1>18, <1>19, <1>20,
     <1>21, <1>22, <1>23, <1>24, <1>25, <1>27 DEF Next, TickStep

(* Every step keeps the types: the cursor stays within the cadence, and    *)
(* each row and each call in a state the code knows.                       *)
THEOREM SequenceTypeCorrect == Spec => []TypeOK
<1>1. Init => TypeInv
  <2> SUFFICES ASSUME Init PROVE TypeInv
    OBVIOUS
  <2>1. seq \in Sequences /\ created \in 0..N /\ created < N /\ 0 \in 0..N
          /\ 0 \in Steps /\ 0 \in 0..MaxDeliveries /\ 0 \in 0..MaxFailures
    BY SequenceAssumption DEF Init, Sequences, Steps
  <2>2. pc \in [Calls -> PCs] /\ status \in [Steps -> Runnable \cup {"SENT", "HELD", "FAILED"}]
    BY DEF Init, PCs, Runnable
  <2>3. QED
    BY <2>1, <2>2 DEF Init, TypeInv, TypeOK
<1>2. TypeInv => TypeOK
  BY DEF TypeInv
<1>3. QED
  BY <1>1, <1>2, SequenceTypeStep, PTL DEF Spec

-----------------------------------------------------------------------------

(* Once a stop is terminal no call is left that has read the sequence in   *)
(* another state and is still to write.                                    *)
StopKept == stoppedFor => seq.state = "STOPPED" /\ HalfDone = {}

LEMMA StopStep == TypeOK /\ StopKept /\ [Next]_vars => StopKept'
<1> SUFFICES ASSUME TypeOK, StopKept, [Next]_vars PROVE StopKept'
  OBVIOUS
<1> USE DEF Goto, TickGoto, Forget, tick, history
<1>1. ASSUME CreateStep PROVE StopKept'
  BY <1>1 DEF CreateStep, StopKept, HalfDone, Working, TypeOK, Calls
<1>2. ASSUME EnrollFails PROVE StopKept'
  BY <1>2 DEF EnrollFails, StopKept, HalfDone, Working, TypeOK, Calls
<1>3. ASSUME Advance PROVE StopKept'
  BY <1>3 DEF Advance, StopKept, HalfDone, Working, TypeOK, Calls
<1>4. ASSUME OptOut PROVE StopKept'
  BY <1>4 DEF OptOut, StopKept, HalfDone, Working, TypeOK, Calls
<1>27. ASSUME Crowd PROVE StopKept'
  BY <1>27 DEF Crowd, StopKept, HalfDone, Working, TypeOK, Calls
<1>5. ASSUME NEW c \in Tickers, ListDue(c) PROVE StopKept'
  BY <1>5 DEF ListDue, StopKept, HalfDone, Working, TypeOK, Calls
<1>6. ASSUME NEW c \in Tickers, ReadSequence(c) PROVE StopKept'
  BY <1>6 DEF ReadSequence, StopKept, HalfDone, Working, TypeOK, Calls
<1>7. ASSUME NEW c \in Tickers, ReadSteps(c) PROVE StopKept'
  BY <1>7 DEF ReadSteps, StopKept, HalfDone, Working, TypeOK, Calls
<1>8. ASSUME NEW c \in Tickers, Pick(c) PROVE StopKept'
  BY <1>8 DEF Pick, Take, StopKept, HalfDone, Working, TypeOK, Calls
<1>9. ASSUME NEW c \in Tickers, Gate(c) PROVE StopKept'
  BY <1>9 DEF Gate, StopKept, HalfDone, Working, TypeOK, Calls
<1>10. ASSUME NEW c \in Tickers, GateRefuses(c) PROVE StopKept'
  BY <1>10 DEF GateRefuses, StopKept, HalfDone, Working, TypeOK, Calls
<1>11. ASSUME NEW c \in Tickers, QuietHours(c) PROVE StopKept'
  BY <1>11 DEF QuietHours, StopKept, HalfDone, Working, TypeOK, Calls
<1>12. ASSUME NEW c \in Tickers, Deliver(c) PROVE StopKept'
  BY <1>12 DEF Deliver, StopKept, HalfDone, Working, TypeOK, Calls
<1>13. ASSUME NEW c \in Tickers, DeliveryFails(c) PROVE StopKept'
  BY <1>13 DEF DeliveryFails, StopKept, HalfDone, Working, TypeOK, Calls
<1>14. ASSUME NEW c \in Tickers, MarkStep(c) PROVE StopKept'
  <2>1. pc[c] \in Working
    BY <1>14 DEF MarkStep, WriteStatus, Working
  <2>2. ~stoppedFor
    BY <2>1 DEF StopKept, HalfDone, Calls
  <2>3. QED
    BY <1>14, <2>2 DEF MarkStep, StopKept
<1>15. ASSUME NEW c \in Tickers, AdvanceCursor(c) PROVE StopKept'
  BY <1>15 DEF AdvanceCursor, StopKept, HalfDone, Working, TypeOK, Calls
<1>16. ASSUME NEW c \in Tickers, PauseTick(c) PROVE StopKept'
  BY <1>16 DEF PauseTick, StopKept, HalfDone, Working, TypeOK, Calls
<1>17. ASSUME NEW c \in Tickers, StopTick(c) PROVE StopKept'
  BY <1>17 DEF StopTick, StopKept, HalfDone, Working, TypeOK, Calls
<1>18. ASSUME NEW c \in Tickers, TickFails(c) PROVE StopKept'
  BY <1>18 DEF TickFails, StopKept, HalfDone, Working, TypeOK, Calls
<1>19. ASSUME NEW c \in Replies, ListActive(c) PROVE StopKept'
  BY <1>19 DEF ListActive, StopKept, HalfDone, Working, TypeOK, Calls
<1>20. ASSUME NEW c \in Replies, ReadForReply(c) PROVE StopKept'
  BY <1>20 DEF ReadForReply, StopKept, HalfDone, Working, TypeOK, Calls
<1>21. ASSUME NEW c \in Replies, PauseOnReply(c) PROVE StopKept'
  BY <1>21 DEF PauseOnReply, StopKept, HalfDone, Working, TypeOK, Calls
<1>22. ASSUME NEW c \in Resumes, ReadForResume(c) PROVE StopKept'
  BY <1>22 DEF ReadForResume, StopKept, HalfDone, Working, TypeOK, Calls
<1>23. ASSUME NEW c \in Resumes, Resume(c) PROVE StopKept'
  BY <1>23 DEF Resume, StopKept, HalfDone, Working, TypeOK, Calls
<1>24. ASSUME NEW c \in Stops, StopOnOptOut(c) PROVE StopKept'
  <2>1. seq'.state = "STOPPED"
    BY <1>24 DEF StopOnOptOut, TypeOK, Sequences
  <2>2. QED
    BY <1>24, <2>1 DEF StopOnOptOut, StopKept, HalfDone, Working, TypeOK, Calls
<1>25. CASE UNCHANGED vars
  BY <1>25 DEF vars, StopKept, HalfDone
<1> HIDE DEF Goto, TickGoto, Forget, tick, history
<1>26. QED
  BY <1>1, <1>2, <1>3, <1>4, <1>5, <1>6, <1>7, <1>8, <1>9, <1>10,
     <1>11, <1>12, <1>13, <1>14, <1>15, <1>16, <1>17, <1>18, <1>19, <1>20,
     <1>21, <1>22, <1>23, <1>24, <1>25, <1>27 DEF Next, TickStep

(* A stop that lands while no call is between its read and its write is    *)
(* never undone, by a reply, a resume or any number of ticks.              *)
THEOREM StopStands == Spec => []StopIsTerminal
<1>1. Init => StopKept
  BY DEF Init, StopKept
<1>2. StopKept => StopIsTerminal
  BY DEF StopKept, StopIsTerminal
<1>3. QED
  BY <1>1, <1>2, StopStep, SequenceTypeCorrect, PTL DEF Spec

-----------------------------------------------------------------------------

Unsent(i) == delivered[i] = 0 \/ i \in redo

(* A tick that has dispatched its step and is still to mark it.            *)
Settling == {"markSent", "markFailed", "holdPause"}

(* While no two ticks have worked at once, at most one works now; a step   *)
(* that went out is marked, or is being marked by that tick; and what the  *)
(* tick has still to do has not gone out.                                  *)
OnceKept ==
    ~overlapped =>
        /\ \A c \in Tickers : pc[c] \in Working \ {"pick"} => cur[c] <= at[c]
        /\ \A c, d \in Tickers : pc[c] \in Working /\ pc[d] \in Working => c = d
        /\ \A i \in Steps : status[i] \in Runnable =>
            Unsent(i) \/ \E c \in Tickers : pc[c] \in Settling /\ at[c] = i
        /\ \A c \in Tickers :
            pc[c] \in {"preCheck", "seam", "holdEnd", "holdStop", "defer"} => Unsent(at[c])
        /\ \A c \in Tickers : pc[c] \in Working =>
            \A i \in Candidates(c) :
                Unsent(i) \/ (i = at[c] /\ pc[c] \in Settling \cup {"advance", "pause"})
        /\ \A i \in Steps : delivered[i] > 1 => i \in redo

(* A step of a call outside its working part.                              *)
LEMMA OnceFrame ==
  ASSUME TypeOK, OnceKept,
         UNCHANGED <<status, delivered, overlapped, redo>>,
         \A d \in Tickers :
            \/ pc[d] \notin Working /\ pc'[d] \notin Working
            \/ pc'[d] = pc[d] /\ todo'[d] = todo[d] /\ cur'[d] = cur[d] /\ at'[d] = at[d]
  PROVE  OnceKept'
<1> SUFFICES ASSUME ~overlapped PROVE OnceKept'
  BY DEF OnceKept
<1>1. \A d \in Tickers : pc'[d] \in Working =>
        pc'[d] = pc[d] /\ at'[d] = at[d] /\ cur'[d] = cur[d] /\ Candidates(d)' = Candidates(d)
  BY DEF Candidates
<1>2. \A d \in Tickers : pc[d] \in Settling => pc'[d] = pc[d] /\ at'[d] = at[d]
  BY DEF Settling, Working
<1>3. \A i : Unsent(i)' <=> Unsent(i)
  BY DEF Unsent
<1>4. \A d \in Tickers : pc'[d] \in {"preCheck", "seam", "holdEnd", "holdStop", "defer"}
        => pc'[d] \in Working
  BY DEF Working
<1>5. QED
  BY <1>1, <1>2, <1>3, <1>4 DEF OnceKept

LEMMA OnceStep == TypeOK /\ OnceKept /\ [Next]_vars => OnceKept'
<1> SUFFICES ASSUME TypeOK, OnceKept, [Next]_vars PROVE OnceKept'
  OBVIOUS
<1> USE DEF Goto, TickGoto, Forget, tick, history
<1>1. ASSUME CreateStep PROVE OnceKept'
  BY <1>1, OnceFrame DEF CreateStep, TypeOK, Calls, Working
<1>2. ASSUME EnrollFails PROVE OnceKept'
  BY <1>2, OnceFrame DEF EnrollFails, TypeOK, Calls, Working
<1>3. ASSUME Advance PROVE OnceKept'
  BY <1>3, OnceFrame DEF Advance, TypeOK, Calls, Working
<1>4. ASSUME OptOut PROVE OnceKept'
  BY <1>4, OnceFrame DEF OptOut, TypeOK, Calls, Working
<1>27. ASSUME Crowd PROVE OnceKept'
  BY <1>27, OnceFrame DEF Crowd, TypeOK, Calls, Working
<1>5. ASSUME NEW c \in Tickers, ListDue(c) PROVE OnceKept'
  BY <1>5, OnceFrame DEF ListDue, TypeOK, Calls, Working
<1>6. ASSUME NEW c \in Tickers, ReadSequence(c) PROVE OnceKept'
  BY <1>6, OnceFrame DEF ReadSequence, TypeOK, Calls, Working
<1>7. ASSUME NEW c \in Tickers, ReadSteps(c) PROVE OnceKept'
  <2> SUFFICES ASSUME ~overlapped' PROVE OnceKept'
    BY DEF OnceKept
  <2>1. ~overlapped /\ \A d \in Tickers \ {c} : pc[d] \notin Working
    BY <1>7 DEF ReadSteps
  <2>2. \A d \in Tickers : pc[d] \notin Settling
    BY <1>7, <2>1 DEF ReadSteps, Settling, Working
  <2>3. \A i \in Steps : status[i] \in Runnable => Unsent(i)
    BY <2>1, <2>2 DEF OnceKept
  <2>4. pc'[c] = "pick" /\ Candidates(c)' \subseteq Due
          /\ \A d \in Tickers \ {c} : pc'[d] = pc[d]
    BY <1>7 DEF ReadSteps, Candidates, TypeOK, Calls
  <2>5. \A i \in Due : i \in Steps /\ Unsent(i)
    BY <2>3, SequenceAssumption DEF Due, Steps, TypeOK
  <2>6. \A i : Unsent(i)' <=> Unsent(i)
    BY <1>7 DEF ReadSteps, Unsent
  <2>7. UNCHANGED <<status, delivered, redo>>
    BY <1>7 DEF ReadSteps
  <2>8. QED
    BY <2>1, <2>3, <2>4, <2>5, <2>6, <2>7 DEF OnceKept, Working
<1>8. ASSUME NEW c \in Tickers, Pick(c) PROVE OnceKept'
  BY <1>8 DEF Pick, Take, OnceKept, Unsent, Settling, Candidates, Working, TypeOK, Calls
<1>9. ASSUME NEW c \in Tickers, Gate(c) PROVE OnceKept'
  BY <1>9 DEF Gate, OnceKept, Unsent, Settling, Candidates, Working, TypeOK, Calls
<1>10. ASSUME NEW c \in Tickers, GateRefuses(c) PROVE OnceKept'
  BY <1>10 DEF GateRefuses, OnceKept, Unsent, Settling, Candidates, Working, TypeOK, Calls
<1>11. ASSUME NEW c \in Tickers, QuietHours(c) PROVE OnceKept'
  BY <1>11 DEF QuietHours, OnceKept, Unsent, Settling, Candidates, Working, TypeOK, Calls
<1>12. ASSUME NEW c \in Tickers, Deliver(c) PROVE OnceKept'
  BY <1>12 DEF Deliver, OnceKept, Unsent, Settling, Candidates, Working, TypeOK, Calls
<1>13. ASSUME NEW c \in Tickers, DeliveryFails(c) PROVE OnceKept'
  BY <1>13 DEF DeliveryFails, OnceKept, Unsent, Settling, Candidates, Working, TypeOK, Calls
<1>14. ASSUME NEW c \in Tickers, MarkStep(c) PROVE OnceKept'
  <2> SUFFICES ASSUME ~overlapped, ~overlapped' PROVE OnceKept'
    BY <1>14 DEF MarkStep, OnceKept
  <2>1. pc[c] \in {"holdEnd", "holdStop", "holdPause", "defer", "markSent", "markFailed"}
    BY <1>14 DEF MarkStep, WriteStatus
  <2>2. pc[c] \in Working /\ \A d \in Tickers \ {c} : pc[d] \notin Working
    BY <2>1 DEF OnceKept, Working
  <2>3. \/ pc'[c] = "idle"
        \/ /\ todo'[c] = todo[c] /\ cur'[c] = cur[c] /\ at'[c] = at[c]
           /\ \/ pc[c] = "holdStop" /\ pc'[c] = "stop"
              \/ pc[c] = "holdPause" /\ pc'[c] = "pause"
              \/ pc[c] = "markSent" /\ pc'[c] = "advance"
    BY <1>14, <2>1 DEF MarkStep, AfterStatus, TypeOK, Calls
  <2>4. \A d \in Tickers \ {c} : pc'[d] = pc[d]
    BY <1>14 DEF MarkStep, TypeOK, Calls
  <2>5. status'[at[c]] \in Runnable => Unsent(at[c])
    BY <1>14, <2>1 DEF MarkStep, WriteStatus, Runnable, OnceKept, TypeOK
  <2>6. \A i \in Steps \ {at[c]} : status'[i] = status[i]
    BY <1>14 DEF MarkStep, TypeOK
  <2>7. \A i \in Steps : status'[i] \in Runnable => Unsent(i)
    BY <2>2, <2>5, <2>6 DEF OnceKept, Settling, Working
  <2>8. UNCHANGED <<delivered, redo>>
    BY <1>14 DEF MarkStep
  <2>9. pc'[c] \in Working => Candidates(c)' = Candidates(c)
    BY <2>3 DEF Candidates, Working
  <2>10. QED
    BY <2>2, <2>3, <2>4, <2>7, <2>8, <2>9 DEF OnceKept, Unsent, Settling, Working
<1>15. ASSUME NEW c \in Tickers, AdvanceCursor(c) PROVE OnceKept'
  <2> SUFFICES ASSUME ~overlapped, ~overlapped' PROVE OnceKept'
    BY <1>15 DEF AdvanceCursor, OnceKept
  <2>1. pc[c] = "advance" /\ \A d \in Tickers \ {c} : pc[d] \notin Working
    BY <1>15 DEF AdvanceCursor, OnceKept, Working
  <2>2. \/ pc'[c] = "idle"
        \/ pc'[c] = "pick" /\ todo'[c] = todo[c] /\ cur'[c] = at[c] + 1
    BY <1>15 DEF AdvanceCursor, TypeOK, Calls
  <2>3. cur[c] <= at[c] /\ cur[c] \in Nat /\ at[c] \in Nat /\ todo[c] \subseteq Nat
    BY <2>1, SequenceAssumption DEF OnceKept, Working, TypeOK, Steps
  <2>4. pc'[c] \in Working =>
            \A i \in Candidates(c)' : i \in Candidates(c) /\ i # at[c]
    BY <2>2, <2>3 DEF Candidates, Working
  <2>5. UNCHANGED <<status, delivered, redo>> /\ \A d \in Tickers \ {c} : pc'[d] = pc[d]
    BY <1>15 DEF AdvanceCursor, TypeOK, Calls
  <2>6. QED
    BY <2>1, <2>2, <2>4, <2>5 DEF OnceKept, Unsent, Settling, Working
<1>16. ASSUME NEW c \in Tickers, PauseTick(c) PROVE OnceKept'
  BY <1>16 DEF PauseTick, OnceKept, Unsent, Settling, Candidates, Working, TypeOK, Calls
<1>17. ASSUME NEW c \in Tickers, StopTick(c) PROVE OnceKept'
  BY <1>17 DEF StopTick, OnceKept, Unsent, Settling, Candidates, Working, TypeOK, Calls
<1>18. ASSUME NEW c \in Tickers, TickFails(c) PROVE OnceKept'
  BY <1>18 DEF TickFails, OnceKept, Unsent, Settling, Candidates, Working, TypeOK, Calls
<1>19. ASSUME NEW c \in Replies, ListActive(c) PROVE OnceKept'
  BY <1>19, OnceFrame DEF ListActive, TypeOK, Calls, Working
<1>20. ASSUME NEW c \in Replies, ReadForReply(c) PROVE OnceKept'
  BY <1>20, OnceFrame DEF ReadForReply, TypeOK, Calls, Working
<1>21. ASSUME NEW c \in Replies, PauseOnReply(c) PROVE OnceKept'
  BY <1>21, OnceFrame DEF PauseOnReply, TypeOK, Calls, Working
<1>22. ASSUME NEW c \in Resumes, ReadForResume(c) PROVE OnceKept'
  BY <1>22, OnceFrame DEF ReadForResume, TypeOK, Calls, Working
<1>23. ASSUME NEW c \in Resumes, Resume(c) PROVE OnceKept'
  BY <1>23, OnceFrame DEF Resume, TypeOK, Calls, Working
<1>24. ASSUME NEW c \in Stops, StopOnOptOut(c) PROVE OnceKept'
  BY <1>24, OnceFrame DEF StopOnOptOut, TypeOK, Calls, Working
<1>25. CASE UNCHANGED vars
  BY <1>25, OnceFrame DEF vars
<1> HIDE DEF Goto, TickGoto, Forget, tick, history
<1>26. QED
  BY <1>1, <1>2, <1>3, <1>4, <1>5, <1>6, <1>7, <1>8, <1>9, <1>10,
     <1>11, <1>12, <1>13, <1>14, <1>15, <1>16, <1>17, <1>18, <1>19, <1>20,
     <1>21, <1>22, <1>23, <1>24, <1>25, <1>27 DEF Next, TickStep

(* However ticks, failures, replies, resumes and stops interleave, a step  *)
(* goes out twice only if two ticks worked at once or one died between     *)
(* the dispatch and marking it.                                            *)
THEOREM SentAtMostOnce == Spec => []SentOnce
<1>1. Init => OnceKept
  BY DEF Init, OnceKept, Unsent, Working, Calls
<1>2. OnceKept => SentOnce
  BY DEF OnceKept, SentOnce
<1>3. QED
  BY <1>1, <1>2, OnceStep, SequenceTypeCorrect, PTL DEF Spec

-----------------------------------------------------------------------------

(* Step k has had its turn, or lost it to a later step that was due first.  *)
Settled(k) == status[k] \notin Runnable \/ Overtaken(k)

Past(i) == \A k \in Steps : k < i => Settled(k)

(* Nothing that was due by the time of step i is still to run before it.   *)
PastDue(i) == \A k \in Steps : k < i => Settled(k) \/ DueAt[k] > DueAt[i]

(* The steps a tick has read may have gaps only where nothing that was due *)
(* as early is left.                                                       *)
NoGap(c) == \A j \in Candidates(c), k \in Steps :
                k < j /\ k \notin Candidates(c) => Settled(k) \/ DueAt[k] > DueAt[j]

(* A tick at its step, which is not marked yet.                            *)
AtStep == Working \ {"pick", "advance", "stop", "pause"}

(* The cursor of a tick and the step it works on have nothing left before  *)
(* them, and what the tick has still to do is left.                        *)
Ordered(c) ==
    /\ pc[c] \in Working \cup {"readSteps"} => Past(cur[c])
    /\ pc[c] \notin Working =>
        \A j \in todo[c], k \in Steps : k < j => k \in todo[c] \/ DueAt[k] > DueAt[j]
    /\ pc[c] \in Working =>
        NoGap(c) /\ \A i \in Candidates(c) \ {at[c]} : status[i] \in Runnable
    /\ pc[c] = "pick" => \A i \in Candidates(c) : status[i] \in Runnable
    /\ pc[c] \in Working \ {"pick"} => PastDue(at[c])
    /\ pc[c] \in AtStep => status[at[c]] \in Runnable
    /\ pc[c] = "advance" => status[at[c]] \notin Runnable
    /\ pc[c] \in {"markSent", "advance"} => delivered[at[c]] > 0

(* While no two ticks have worked at once, the row's cursor and every step *)
(* that went out have nothing left before them either.                     *)
OrderKept ==
    ~overlapped =>
        /\ Past(seq.cursor)
        /\ \A i \in Steps : delivered[i] > 0 => Past(i)
        /\ \A c \in Tickers : Ordered(c)

Same(d) == pc'[d] = pc[d] /\ todo'[d] = todo[d] /\ cur'[d] = cur[d] /\ at'[d] = at[d]

(* Marking a step and sending one leave nothing less settled.              *)
LEMMA SettledFrame ==
    ASSUME UNCHANGED <<status, delivered>>
    PROVE  \A k : Settled(k)' <=> Settled(k)
  BY DEF Settled, Overtaken

LEMMA SameOrdered ==
    ASSUME NEW d \in Tickers, Ordered(d), Same(d), UNCHANGED <<status, delivered>>
    PROVE  Ordered(d)'
<1>0. \A k : Settled(k)' <=> Settled(k)
  BY SettledFrame
<1>1. Candidates(d)' = Candidates(d) /\ (NoGap(d)' <=> NoGap(d))
  BY <1>0 DEF Same, Candidates, NoGap
<1>2. (Past(cur[d])' <=> Past(cur[d])) /\ (PastDue(at[d])' <=> PastDue(at[d]))
  BY <1>0 DEF Same, Past, PastDue
<1>3. QED
  BY <1>1, <1>2 DEF Same, Ordered

(* A tick that is not at work needs only that what it has listed has no    *)
(* gaps.                                                                   *)
LEMMA RestOrdered ==
    ASSUME NEW d \in Tickers, Ordered(d),
           pc'[d] \notin Working \cup {"readSteps"},
           todo'[d] = {} \/ (todo'[d] = todo[d] /\ pc[d] \notin Working)
    PROVE  Ordered(d)'
  BY DEF Ordered, Working, AtStep

(* A step that marks, sends and moves nothing, and starts no tick's work.  *)
LEMMA OrderFrame ==
  ASSUME TypeOK, OrderKept,
         UNCHANGED <<status, delivered, overlapped>>, seq'.cursor = seq.cursor,
         \A d \in Tickers :
            \/ Same(d)
            \/ /\ pc'[d] \notin Working \cup {"readSteps"}
               /\ todo'[d] = {} \/ (todo'[d] = todo[d] /\ pc[d] \notin Working)
  PROVE  OrderKept'
<1> SUFFICES ASSUME ~overlapped PROVE OrderKept'
  BY DEF OrderKept
<1>0. \A k : Settled(k)' <=> Settled(k)
  BY SettledFrame
<1>1. Past(seq.cursor)' /\ \A i \in Steps : delivered'[i] > 0 => Past(i)'
  BY <1>0 DEF OrderKept, Past
<1>2. \A c \in Tickers : Ordered(c)'
  BY SameOrdered, RestOrdered DEF OrderKept
<1>3. QED
  BY <1>1, <1>2 DEF OrderKept

(* A step of one tick that marks and sends nothing.                        *)
LEMMA OrderByTick ==
  ASSUME TypeOK, OrderKept, NEW c \in Tickers,
         UNCHANGED <<seq, status, delivered>>, ~overlapped' => ~overlapped,
         \A d \in Tickers \ {c} : Same(d),
         ~overlapped /\ ~overlapped' => Ordered(c)'
  PROVE  OrderKept'
<1> SUFFICES ASSUME ~overlapped, ~overlapped' PROVE OrderKept'
  BY DEF OrderKept
<1>0. \A k : Settled(k)' <=> Settled(k)
  BY SettledFrame
<1>1. Past(seq.cursor)' /\ \A i \in Steps : delivered'[i] > 0 => Past(i)'
  BY <1>0 DEF OrderKept, Past
<1>2. \A d \in Tickers \ {c} : Ordered(d)'
  BY SameOrdered DEF OrderKept
<1>3. QED
  BY <1>1, <1>2 DEF OrderKept

LEMMA AtStepOrdered ==
  ASSUME NEW c \in Tickers, Ordered(c), status' = status,
         \A k : Settled(k) => Settled(k)',
         pc[c] \in AtStep, pc'[c] \in AtStep,
         pc'[c] = "markSent" => delivered'[at[c]] > 0,
         todo'[c] = todo[c], cur'[c] = cur[c], at'[c] = at[c]
  PROVE  Ordered(c)'
<1>1. Candidates(c)' = Candidates(c) /\ (NoGap(c) => NoGap(c)')
  BY DEF Candidates, NoGap
<1>2. (Past(cur[c]) => Past(cur[c])') /\ (PastDue(at[c]) => PastDue(at[c])')
  BY DEF Past, PastDue
<1>3. QED
  BY <1>1, <1>2 DEF Ordered, AtStep, Working

LEMMA OrderStep ==
    TypeOK /\ OnceKept /\ OrderKept /\ [Next]_vars => OrderKept'
<1> SUFFICES ASSUME TypeOK, OnceKept, OrderKept, [Next]_vars
             PROVE  OrderKept'
  OBVIOUS
<1> USE DEF Goto, TickGoto, Forget, tick, history
<1>1. ASSUME CreateStep PROVE OrderKept'
  BY <1>1, OrderFrame DEF CreateStep, Same
<1>2. ASSUME EnrollFails PROVE OrderKept'
  BY <1>2, OrderFrame DEF EnrollFails, Same
<1>3. ASSUME Advance PROVE OrderKept'
  BY <1>3, OrderFrame DEF Advance, Same
<1>4. ASSUME OptOut PROVE OrderKept'
  BY <1>4, OrderFrame DEF OptOut, Same
<1>24. ASSUME Crowd PROVE OrderKept'
  BY <1>24, OrderFrame DEF Crowd, Same
<1>5. ASSUME NEW c \in Tickers, ListDue(c) PROVE OrderKept'
  <2>1. pc'[c] = "listed" /\ todo'[c] = {i \in Steps : DueAt[i] <= clock}
    BY <1>5 DEF ListDue, TypeOK, Calls
  <2>2. \A j \in todo'[c], k \in Steps : k < j => k \in todo'[c] \/ DueAt[k] > DueAt[j]
    <3> SUFFICES ASSUME NEW j \in todo'[c], NEW k \in Steps, k \notin todo'[c]
                 PROVE  DueAt[k] > DueAt[j]
      OBVIOUS
    <3>1. j \in Steps /\ DueAt[j] <= clock /\ ~(DueAt[k] <= clock)
      BY <2>1
    <3>2. DueAt[j] \in Nat /\ DueAt[k] \in Nat /\ clock \in Nat
      BY <3>1, SequenceAssumption DEF TypeOK
    <3>3. QED
      BY <3>1, <3>2
  <2>3. Ordered(c)'
    BY <2>1, <2>2 DEF Ordered, Working, AtStep
  <2>4. QED
    BY <1>5, <2>3, OrderByTick DEF ListDue, Same, TypeOK, Calls
<1>6. ASSUME NEW c \in Tickers, ReadSequence(c) PROVE OrderKept'
  <2>1. CASE seq.state = "ACTIVE"
    <3>1. /\ pc[c] = "listed" /\ pc'[c] = "readSteps"
          /\ cur'[c] = seq.cursor /\ todo'[c] = todo[c]
      BY <1>6, <2>1 DEF ReadSequence, TypeOK, Calls
    <3>2. ~overlapped => Past(cur[c])'
      <4>1. \A k : Settled(k)' <=> Settled(k)
        BY <1>6, SettledFrame DEF ReadSequence
      <4>2. QED
        BY <3>1, <4>1 DEF OrderKept, Past
    <3>3. ~overlapped => Ordered(c)'
      BY <3>1, <3>2 DEF Ordered, OrderKept, Working, AtStep
    <3>4. QED
      BY <1>6, <3>3, OrderByTick DEF ReadSequence, Same, TypeOK, Calls
  <2>2. CASE seq.state # "ACTIVE"
    BY <1>6, <2>2, OrderFrame DEF ReadSequence, Same, TypeOK, Calls, Working
  <2>3. QED
    BY <2>1, <2>2
<1>7. ASSUME NEW c \in Tickers, ReadSteps(c) PROVE OrderKept'
  <2>1. /\ pc[c] = "readSteps" /\ pc'[c] = "pick"
        /\ todo'[c] = todo[c] \cap Due /\ cur'[c] = cur[c] /\ at'[c] = at[c]
    BY <1>7 DEF ReadSteps, TypeOK, Calls
  <2>2. ~overlapped' => ~overlapped
    BY <1>7 DEF ReadSteps
  <2>3. status' = status /\ cur[c] \in Nat
    BY <1>7, SequenceAssumption DEF ReadSteps, TypeOK
  <2>6. \A k : Settled(k)' <=> Settled(k)
    BY <1>7, SettledFrame DEF ReadSteps
  <2>4. ASSUME ~overlapped PROVE Ordered(c)'
    <3>1. /\ Past(cur[c])
          /\ \A j \in todo[c], k \in Steps : k < j => k \in todo[c] \/ DueAt[k] > DueAt[j]
      BY <2>1, <2>4 DEF OrderKept, Ordered, Working
    <3>2. Candidates(c)' = {i \in todo[c] \cap Due : i >= cur[c]}
      BY <2>1 DEF Candidates
    <3>3. \A i \in Candidates(c)' : status'[i] \in Runnable
      BY <2>3, <3>2 DEF Due
    <3>4. NoGap(c)'
      <4> SUFFICES ASSUME NEW j \in Candidates(c)', NEW k \in Steps, k < j,
                          k \notin Candidates(c)', ~(DueAt[k] > DueAt[j])
                   PROVE  Settled(k)
        BY <2>6 DEF NoGap
      <4>1. j \in todo[c] /\ j \in Due /\ j \in Steps /\ j >= cur[c]
        BY <3>2 DEF TypeOK
      <4>2. k \in todo[c]
        BY <3>1, <4>1
      <4>3. CASE k < cur[c]
        BY <3>1, <4>3 DEF Past
      <4>4. CASE ~(k < cur[c])
        <5>1. k >= cur[c]
          BY <2>3, <4>4, SequenceAssumption DEF Steps
        <5>2. k \notin Due
          BY <3>2, <4>2, <5>1
        <5>3. k \in 0 .. created - 1 /\ DueAt[k] <= clock
          BY <4>1, SequenceAssumption DEF Due, TypeOK, Steps
        <5>4. QED
          BY <5>2, <5>3 DEF Due, Settled
      <4>5. QED
        BY <4>3, <4>4
    <3>5. Past(cur[c])'
      BY <2>1, <2>6, <3>1 DEF Past
    <3>6. QED
      BY <2>1, <3>3, <3>4, <3>5 DEF Ordered, Working, AtStep
  <2>5. QED
    BY <1>7, <2>2, <2>4, OrderByTick DEF ReadSteps, Same, TypeOK, Calls
<1>8. ASSUME NEW c \in Tickers, Pick(c) PROVE OrderKept'
  <2>1. CASE Candidates(c) = {} /\ TickGoto(c, "idle")
    BY <1>8, <2>1, OrderFrame DEF Pick, Same, TypeOK, Calls, Working
  <2>2. ASSUME NEW i \in Candidates(c), \A j \in Candidates(c) : i <= j, Take(c, i)
        PROVE  OrderKept'
    <3>1. /\ pc[c] = "pick" /\ pc'[c] \in {"holdEnd", "preCheck"}
          /\ at'[c] = i /\ todo'[c] = todo[c] /\ cur'[c] = cur[c] /\ status' = status
      BY <1>8, <2>2 DEF Pick, Take, TypeOK, Calls
    <3>2. /\ Candidates(c)' = Candidates(c) /\ (NoGap(c)' <=> NoGap(c))
          /\ (Past(cur[c])' <=> Past(cur[c])) /\ (PastDue(i)' <=> PastDue(i))
      <4>1. \A k : Settled(k)' <=> Settled(k)
        BY <1>8, SettledFrame DEF Pick
      <4>2. QED
        BY <3>1, <4>1 DEF Candidates, NoGap, Past, PastDue
    <3>3. i \in Steps
      BY DEF Candidates, TypeOK
    <3>4. ASSUME ~overlapped PROVE PastDue(i)
      <4>1. NoGap(c)
        BY <3>1, <3>4 DEF OrderKept, Ordered, Working
      <4>2. \A k \in Steps : k < i => k \notin Candidates(c)
        BY <2>2, <3>3, SequenceAssumption DEF Steps
      <4>3. QED
        BY <4>1, <4>2 DEF NoGap, PastDue
    <3>5. ASSUME ~overlapped PROVE Ordered(c)'
      <4>1. /\ Past(cur[c]) /\ NoGap(c)
            /\ \A k \in Candidates(c) : status[k] \in Runnable
        BY <3>1, <3>5 DEF OrderKept, Ordered, Working
      <4>2. PastDue(at[c])'
        BY <3>1, <3>2, <3>4, <3>5 DEF PastDue
      <4>3. QED
        BY <3>1, <3>2, <4>1, <4>2 DEF Ordered, Working, AtStep
    <3>6. QED
      BY <1>8, <2>2, <3>5, OrderByTick DEF Pick, Take, Same, TypeOK, Calls
  <2>3. QED
    BY <1>8, <2>1, <2>2 DEF Pick
<1>9. ASSUME NEW c \in Tickers, NEW label \in AtStep \ {"markSent"}, pc[c] \in AtStep,
             TickGoto(c, label), UNCHANGED <<seq, status, delivered, overlapped>>
      PROVE  OrderKept'
  <2>1. pc'[c] = label /\ label # "idle"
    BY <1>9 DEF TypeOK, Calls, AtStep, Working
  <2>2. todo'[c] = todo[c] /\ cur'[c] = cur[c] /\ at'[c] = at[c]
    BY <1>9, <2>1
  <2>6. \A k : Settled(k)' <=> Settled(k)
    BY <1>9, SettledFrame
  <2>3. ~overlapped => Ordered(c)'
    BY <1>9, <2>1, <2>2, <2>6, AtStepOrdered DEF OrderKept
  <2>4. \A d \in Tickers \ {c} : Same(d)
    BY <1>9, <2>1 DEF Same, TypeOK, Calls
  <2>5. QED
    BY <1>9, <2>3, <2>4, OrderByTick
<1>10. ASSUME NEW c \in Tickers,
              Gate(c) \/ GateRefuses(c) \/ QuietHours(c) \/ DeliveryFails(c)
       PROVE  OrderKept'
  <2>1. /\ pc[c] \in AtStep /\ UNCHANGED <<seq, status, delivered, overlapped>>
        /\ \E label \in AtStep \ {"markSent"} : TickGoto(c, label)
    <3>1. \A label \in {"preCheck", "seam", "holdStop", "holdPause", "holdEnd", "defer",
                        "markFailed"} : label \in AtStep \ {"markSent"}
      BY DEF AtStep, Working
    <3> HIDE DEF TickGoto
    <3>2. QED
      BY <1>10, <3>1 DEF Gate, GateRefuses, QuietHours, DeliveryFails
  <2>2. QED
    BY <1>9, <2>1
<1>11. ASSUME NEW c \in Tickers, Deliver(c) PROVE OrderKept'
  <2>1. PICK label \in {"markSent", "markFailed", "holdPause"} : TickGoto(c, label)
    BY <1>11 DEF Deliver
  <2>2. /\ pc[c] = "seam" /\ pc'[c] = label
        /\ todo'[c] = todo[c] /\ cur'[c] = cur[c] /\ at'[c] = at[c]
        /\ UNCHANGED <<seq, status, overlapped>>
        /\ \A d \in Tickers \ {c} : Same(d)
        /\ \A i \in Steps \ {at[c]} : delivered'[i] = delivered[i]
    BY <1>11, <2>1 DEF Deliver, Same, TypeOK, Calls
  <2> SUFFICES ASSUME ~overlapped PROVE OrderKept'
    BY <2>2 DEF OrderKept
  <2>3. Ordered(c) /\ PastDue(at[c]) /\ at[c] \in Steps
    BY <2>2 DEF OrderKept, Ordered, Working, TypeOK
  <2>8. /\ delivered[at[c]] \in Nat /\ delivered'[at[c]] = delivered[at[c]] + 1
        /\ \A i \in Steps : delivered[i] > 0 => delivered'[i] > 0
    <3>1. delivered[at[c]] \in Nat /\ delivered'[at[c]] = delivered[at[c]] + 1
      BY <1>11, <2>3, SequenceAssumption DEF Deliver, TypeOK
    <3>2. QED
      BY <2>2, <3>1
  <2>9. \A k : Settled(k) => Settled(k)'
    BY <2>2, <2>8 DEF Settled, Overtaken
  <2>4. Ordered(c)'
    BY <2>2, <2>3, <2>8, <2>9, AtStepOrdered DEF AtStep, Working
  <2>5. \A d \in Tickers \ {c} : Ordered(d)'
    <3> SUFFICES ASSUME NEW d \in Tickers \ {c} PROVE Ordered(d)'
      OBVIOUS
    <3>1. Ordered(d) /\ pc[d] \notin Working /\ Same(d)
      BY <2>2 DEF OrderKept, OnceKept, Working
    <3>2. Past(cur[d]) => Past(cur[d])'
      BY <2>9, <3>1 DEF Past, Same
    <3>3. QED
      BY <3>1, <3>2 DEF Ordered, Same, AtStep, Working
  <2>10. Past(at[c])'
    <3> SUFFICES ASSUME NEW k \in Steps, k < at[c], DueAt[k] > DueAt[at[c]]
                 PROVE  Settled(k)'
      BY <2>2, <2>3, <2>9 DEF Past, PastDue
    <3>1. at[c] > k /\ delivered'[at[c]] > 0 /\ DueAt[at[c]] < DueAt[k]
      BY <2>3, <2>8, SequenceAssumption DEF Steps
    <3>2. QED
      BY <2>3, <3>1 DEF Settled, Overtaken
  <2>6. Past(seq.cursor)' /\ \A i \in Steps : delivered'[i] > 0 => Past(i)'
    <3>1. \A i : Past(i) => Past(i)'
      BY <2>9 DEF Past
    <3>2. ASSUME NEW i \in Steps, delivered'[i] > 0 PROVE Past(i)'
      <4>1. CASE i = at[c]
        BY <2>2, <2>10, <4>1 DEF Past
      <4>2. CASE i # at[c]
        BY <2>2, <3>1, <3>2, <4>2 DEF OrderKept
      <4>3. QED
        BY <4>1, <4>2
    <3>3. Past(seq.cursor)'
      BY <2>2, <2>9 DEF OrderKept, Past
    <3>4. QED
      BY <3>2, <3>3
  <2>7. QED
    BY <2>4, <2>5, <2>6 DEF OrderKept
<1>12. ASSUME NEW c \in Tickers, MarkStep(c) PROVE OrderKept'
  <2> SUFFICES ASSUME ~overlapped PROVE OrderKept'
    BY <1>12 DEF MarkStep, OrderKept
  <2>1. pc[c] \in {"holdEnd", "holdStop", "holdPause", "defer", "markSent", "markFailed"}
    BY <1>12 DEF MarkStep, WriteStatus
  <2>2. pc[c] \in AtStep /\ pc[c] \in Working /\ \A d \in Tickers \ {c} : pc[d] \notin Working
    BY <2>1 DEF OnceKept, Working, AtStep
  <2>3. \/ pc'[c] = "idle" /\ todo'[c] = {}
        \/ /\ todo'[c] = todo[c] /\ cur'[c] = cur[c] /\ at'[c] = at[c]
           /\ \/ pc'[c] \in {"stop", "pause"}
              \/ pc'[c] = "advance" /\ status'[at[c]] = "SENT"
    BY <1>12, <2>1 DEF MarkStep, AfterStatus, WriteStatus, TypeOK, Calls
  <2>4. UNCHANGED <<seq, delivered, overlapped>> /\ \A d \in Tickers \ {c} : Same(d)
    BY <1>12 DEF MarkStep, Same, TypeOK, Calls
  <2>5. \A i \in Steps \ {at[c]} : status'[i] = status[i]
    BY <1>12 DEF MarkStep, TypeOK
  <2>6. Ordered(c) /\ status[at[c]] \in Runnable
    BY <2>2 DEF OrderKept, Ordered
  <2>7. \A i \in Steps : status[i] \notin Runnable => status'[i] \notin Runnable
    BY <2>5, <2>6
  <2>8. \A k \in Steps : Settled(k) => Settled(k)'
    BY <2>4, <2>7 DEF Settled, Overtaken
  <2>9. Past(seq.cursor)' /\ \A i \in Steps : delivered'[i] > 0 => Past(i)'
    BY <2>4, <2>8 DEF OrderKept, Past
  <2>10. \A d \in Tickers \ {c} : Ordered(d)'
    <3> SUFFICES ASSUME NEW d \in Tickers \ {c} PROVE Ordered(d)'
      OBVIOUS
    <3>1. Ordered(d) /\ pc[d] \notin Working /\ Same(d)
      BY <2>2, <2>4 DEF OrderKept
    <3>2. Past(cur[d]) => Past(cur[d])'
      BY <2>8, <3>1 DEF Past, Same
    <3>3. QED
      BY <3>1, <3>2 DEF Ordered, Same, AtStep, Working
  <2>11. Ordered(c)'
    <3>1. CASE pc'[c] = "idle" /\ todo'[c] = {}
      BY <2>6, <3>1, RestOrdered DEF Working
    <3>2. CASE /\ todo'[c] = todo[c] /\ cur'[c] = cur[c] /\ at'[c] = at[c]
               /\ \/ pc'[c] \in {"stop", "pause"}
                  \/ pc'[c] = "advance" /\ status'[at[c]] = "SENT"
      <4>1. /\ Past(cur[c]) /\ PastDue(at[c]) /\ NoGap(c)
            /\ \A i \in Candidates(c) \ {at[c]} : status[i] \in Runnable
        BY <2>1, <2>2, <2>6 DEF Ordered
      <4>2. Past(cur[c])' /\ PastDue(at[c])'
        BY <2>8, <3>2, <4>1 DEF Past, PastDue
      <4>3. Candidates(c)' = Candidates(c) /\ Candidates(c) \subseteq Steps
        BY <3>2 DEF Candidates, TypeOK
      <4>4. NoGap(c)'
        BY <2>8, <4>1, <4>3 DEF NoGap
      <4>5. \A i \in Candidates(c)' \ {at'[c]} : status'[i] \in Runnable
        BY <2>5, <3>2, <4>1, <4>3
      <4>6. pc'[c] = "advance" => status'[at'[c]] \notin Runnable
        BY <3>2 DEF Runnable
      <4>8. pc'[c] = "advance" => delivered'[at'[c]] > 0
        <5>1. pc'[c] = "advance" => pc[c] = "markSent"
          BY <1>12, <2>1 DEF MarkStep, AfterStatus, TypeOK, Calls
        <5>2. QED
          BY <2>4, <2>6, <3>2, <5>1 DEF Ordered
      <4>7. QED
        BY <3>2, <4>2, <4>4, <4>5, <4>6, <4>8 DEF Ordered, AtStep, Working
    <3>3. QED
      BY <2>3, <3>1, <3>2
  <2>12. QED
    BY <2>9, <2>10, <2>11 DEF OrderKept
<1>13. ASSUME NEW c \in Tickers, AdvanceCursor(c) PROVE OrderKept'
  <2> SUFFICES ASSUME ~overlapped PROVE OrderKept'
    BY <1>13 DEF AdvanceCursor, OrderKept
  <2>1. pc[c] = "advance" /\ UNCHANGED <<status, delivered, overlapped>>
        /\ \A d \in Tickers \ {c} : Same(d)
    BY <1>13 DEF AdvanceCursor, Same, TypeOK, Calls
  <2>2. seq'.cursor = at[c] + 1
    BY <1>13 DEF AdvanceCursor, TypeOK, Sequences
  <2>3. \/ pc'[c] = "idle" /\ todo'[c] = {}
        \/ pc'[c] = "pick" /\ todo'[c] = todo[c] /\ cur'[c] = at[c] + 1
    BY <1>13 DEF AdvanceCursor, TypeOK, Calls
  <2>4. cur[c] <= at[c] /\ cur[c] \in Nat /\ at[c] \in Nat /\ todo[c] \subseteq Steps
          /\ Steps \subseteq Nat
    BY <2>1, SequenceAssumption DEF OnceKept, Working, TypeOK, Steps
  <2>5. /\ Ordered(c) /\ PastDue(at[c]) /\ NoGap(c) /\ status[at[c]] \notin Runnable
        /\ delivered[at[c]] > 0 /\ at[c] \in Steps
        /\ \A i \in Candidates(c) \ {at[c]} : status[i] \in Runnable
    BY <2>1 DEF OrderKept, Ordered, Working, TypeOK
  <2>11. \A k : Settled(k)' <=> Settled(k)
    BY <2>1, SettledFrame
  <2>6. ASSUME NEW k \in Steps, k < at[c] + 1 PROVE Settled(k)
    <3>1. k \in Nat
      BY <2>4
    <3>2. CASE k = at[c]
      BY <2>5, <3>2 DEF Settled
    <3>3. CASE k < at[c] /\ DueAt[k] > DueAt[at[c]]
      <4>1. at[c] > k /\ DueAt[at[c]] < DueAt[k]
        BY <2>4, <2>5, <3>1, <3>3, SequenceAssumption
      <4>2. QED
        BY <2>5, <4>1 DEF Settled, Overtaken
    <3>4. CASE k < at[c] /\ ~(DueAt[k] > DueAt[at[c]])
      BY <2>5, <3>4 DEF PastDue
    <3>5. k < at[c] \/ k = at[c]
      BY <2>4, <2>6, <3>1
    <3>6. QED
      BY <3>2, <3>3, <3>4, <3>5
  <2>7. Ordered(c)'
    <3>1. CASE pc'[c] = "idle" /\ todo'[c] = {}
      BY <2>5, <3>1, RestOrdered DEF Working
    <3>2. CASE pc'[c] = "pick" /\ todo'[c] = todo[c] /\ cur'[c] = at[c] + 1
      <4>1. Candidates(c)' = {i \in todo[c] : i >= at[c] + 1}
        BY <3>2 DEF Candidates
      <4>2. ASSUME NEW i \in Candidates(c)' PROVE i \in Candidates(c) /\ i # at[c]
        <5>1. i \in todo[c] /\ i >= at[c] + 1 /\ i \in Nat
          BY <2>4, <4>1
        <5>2. i >= cur[c] /\ i # at[c]
          BY <2>4, <5>1
        <5>3. QED
          BY <5>1, <5>2 DEF Candidates
      <4>3. NoGap(c)'
        <5> SUFFICES ASSUME NEW j \in Candidates(c)', NEW k \in Steps, k < j,
                            k \notin Candidates(c)'
                     PROVE  Settled(k) \/ DueAt[k] > DueAt[j]
          BY <2>11 DEF NoGap
        <5>1. CASE k < at[c] + 1
          BY <2>6, <5>1
        <5>2. CASE ~(k < at[c] + 1)
          <6>1. k \notin Candidates(c)
            BY <2>4, <4>1, <5>2 DEF Candidates
          <6>2. QED
            BY <2>5, <4>2, <6>1 DEF NoGap
        <5>3. QED
          BY <5>1, <5>2
      <4>4. \A i \in Candidates(c)' : status'[i] \in Runnable
        BY <2>1, <2>5, <4>2
      <4>5. Past(cur[c])'
        BY <2>6, <2>11, <3>2 DEF Past
      <4>6. QED
        BY <3>2, <4>3, <4>4, <4>5 DEF Ordered, AtStep, Working
    <3>3. QED
      BY <2>3, <3>1, <3>2
  <2>8. \A d \in Tickers \ {c} : Ordered(d)'
    BY <2>1, SameOrdered DEF OrderKept
  <2>9. Past(seq.cursor)' /\ \A i \in Steps : delivered'[i] > 0 => Past(i)'
    BY <2>1, <2>2, <2>6, <2>11 DEF OrderKept, Past
  <2>10. QED
    BY <2>7, <2>8, <2>9 DEF OrderKept
<1>14. ASSUME NEW c \in Tickers, PauseTick(c) \/ StopTick(c) PROVE OrderKept'
  <2>1. seq'.cursor = seq.cursor
    BY <1>14 DEF PauseTick, StopTick, TypeOK, Sequences
  <2>2. QED
    BY <1>14, <2>1, OrderFrame DEF PauseTick, StopTick, Same, TypeOK, Calls, Working
<1>15. ASSUME NEW c \in Tickers, TickFails(c) PROVE OrderKept'
  BY <1>15, OrderFrame DEF TickFails, Same, TypeOK, Calls, Working
<1>16. ASSUME NEW c \in Replies, ListActive(c) PROVE OrderKept'
  BY <1>16, OrderFrame DEF ListActive, Same, TypeOK, Calls, Working
<1>17. ASSUME NEW c \in Replies, ReadForReply(c) PROVE OrderKept'
  BY <1>17, OrderFrame DEF ReadForReply, Same, TypeOK, Calls, Working
<1>18. ASSUME NEW c \in Replies, PauseOnReply(c) PROVE OrderKept'
  <2>1. seq'.cursor = seq.cursor
    BY <1>18 DEF PauseOnReply, TypeOK, Sequences
  <2>2. QED
    BY <1>18, <2>1, OrderFrame DEF PauseOnReply, Same, TypeOK, Calls, Working
<1>19. ASSUME NEW c \in Resumes, ReadForResume(c) PROVE OrderKept'
  BY <1>19, OrderFrame DEF ReadForResume, Same, TypeOK, Calls, Working
<1>20. ASSUME NEW c \in Resumes, Resume(c) PROVE OrderKept'
  <2>1. seq'.cursor = seq.cursor
    BY <1>20 DEF Resume, TypeOK, Sequences
  <2>2. QED
    BY <1>20, <2>1, OrderFrame DEF Resume, Same, TypeOK, Calls, Working
<1>21. ASSUME NEW c \in Stops, StopOnOptOut(c) PROVE OrderKept'
  <2>1. seq'.cursor = seq.cursor
    BY <1>21 DEF StopOnOptOut, TypeOK, Sequences
  <2>2. QED
    BY <1>21, <2>1, OrderFrame DEF StopOnOptOut, Same, TypeOK, Calls, Working
<1>22. CASE UNCHANGED vars
  BY <1>22, OrderFrame DEF vars, Same
<1> HIDE DEF Goto, TickGoto, Forget, tick, history
<1>23. QED
  BY <1>1, <1>2, <1>3, <1>4, <1>5, <1>6, <1>7, <1>8, <1>10, <1>11, <1>12, <1>13,
     <1>14, <1>15, <1>16, <1>17, <1>18, <1>19, <1>20, <1>21, <1>22, <1>24
     DEF Next, TickStep

(* For a cadence of any length, any schedule of its steps and any numbers  *)
(* of ticks, replies, stops and resumes, no step goes out after a later    *)
(* one unless two ticks worked at once or a later step that was scheduled  *)
(* before it has gone out.                                                 *)
THEOREM SentInOrder == Spec => DeliversInOrder
<1>1. Init => OrderKept
  <2>1. Init => /\ seq.cursor = 0 /\ \A c \in Tickers : pc[c] = "idle" /\ todo[c] = {}
                /\ \A i \in Steps : delivered[i] = 0
    BY DEF Init, Calls
  <2>2. Init => \A c \in Tickers : Ordered(c)
    BY <2>1 DEF Ordered, Working, AtStep
  <2>3. Init => Past(seq.cursor)
    BY <2>1, SequenceAssumption DEF Past, Steps
  <2>4. QED
    BY <2>1, <2>2, <2>3 DEF OrderKept
<1>2. TypeOK /\ OnceKept /\ OrderKept /\ [Next]_vars => OrderKept'
  BY OrderStep
<1>3. TypeOK /\ OrderKept /\ [Next]_vars =>
        [\A i \in Steps : delivered'[i] > delivered[i] =>
            \/ overlapped
            \/ Overtaken(i)
            \/ \A j \in Steps : j > i => delivered[j] = 0]_vars
  <2> SUFFICES ASSUME TypeOK, OrderKept, [Next]_vars, NEW i \in Steps,
                      delivered'[i] > delivered[i], ~overlapped, ~Overtaken(i),
                      NEW j \in Steps, j > i
               PROVE  delivered[j] = 0
    OBVIOUS
  <2>1. PICK c \in Tickers : Deliver(c)
    <3>1. delivered[i] \in Nat
      BY SequenceAssumption DEF TypeOK
    <3>2. delivered' # delivered
      BY <3>1
    <3>3. QED
      BY <3>2 DEF Next, TickStep, vars, history, CreateStep, EnrollFails, Advance, Crowd, OptOut,
         ListDue, ReadSequence, ReadSteps, Pick, Gate, GateRefuses, QuietHours,
         DeliveryFails, MarkStep, AdvanceCursor, PauseTick, StopTick, TickFails,
         ListActive, ReadForReply, PauseOnReply, ReadForResume, Resume, StopOnOptOut
  <2>2. pc[c] = "seam" /\ i = at[c]
    <3>1. pc[c] = "seam" /\ delivered' = [delivered EXCEPT ![at[c]] = @ + 1]
      BY <2>1 DEF Deliver
    <3>2. delivered[i] \in Nat /\ delivered \in [Steps -> 0..MaxDeliveries]
      BY SequenceAssumption DEF TypeOK
    <3>3. QED
      BY <3>1, <3>2
  <2>3. status[i] \in Runnable
    BY <2>2 DEF OrderKept, Ordered, AtStep, Working
  <2>4. ~Past(j)
    BY <2>3, SequenceAssumption DEF Past, Settled, Steps
  <2>5. delivered[j] \in Nat
    BY SequenceAssumption DEF TypeOK
  <2>6. QED
    BY <2>4, <2>5 DEF OrderKept
<1>4. Init => OnceKept
  BY DEF Init, OnceKept, Unsent, Working, Calls
<1>5. QED
  BY <1>1, <1>2, <1>3, <1>4, OnceStep, SequenceTypeCorrect, PTL DEF Spec, DeliversInOrder

=============================================================================
