------------------------ MODULE CommandRunner_proofs ------------------------
(* Proofs about CommandRunner, for any number of children. *)
EXTENDS CommandRunner, TLAPS

LEMMA CallStep ==
  ASSUME IInv, Call
  PROVE  IInv'
<1>. USE RunnerAssumption DEF Procs, AllKinds, command, killing, result
<1>1. TypeOK' BY DEF IInv, TypeOK, Call
<1>2. ProcInv' BY DEF IInv, DoubtInv, ProcInv, TypeOK, Call
<1>3. VouchInv' BY DEF IInv, DoubtInv, ProcInv, TypeOK, VouchInv, Call
<1>4. DoubtInv' BY DEF IInv, DoubtInv, ProcInv, TypeOK, Unsuspected, Call
<1>5. AloneInv' BY DEF IInv, AloneInv, DoubtInv, ProcInv, TypeOK, Unsuspected, Call
<1>. QED BY <1>1, <1>2, <1>3, <1>4, <1>5 DEF IInv

LEMMA LaunchStep ==
  ASSUME IInv, Launch
  PROVE  IInv'
<1>. USE RunnerAssumption DEF Procs, AllKinds, command, killing, result
<1>1. TypeOK' BY DEF IInv, TypeOK, Launch
<1>2. ProcInv' BY DEF IInv, DoubtInv, ProcInv, TypeOK, Launch
<1>3. VouchInv' BY DEF IInv, DoubtInv, ProcInv, TypeOK, VouchInv, Launch
<1>4. DoubtInv' BY DEF IInv, DoubtInv, ProcInv, TypeOK, Unsuspected, Launch
<1>5. AloneInv' BY DEF IInv, AloneInv, DoubtInv, ProcInv, TypeOK, Unsuspected, Launch
<1>. QED BY <1>1, <1>2, <1>3, <1>4, <1>5 DEF IInv

LEMMA LaunchFailsStep ==
  ASSUME IInv, LaunchFails
  PROVE  IInv'
<1>. USE RunnerAssumption DEF Procs, AllKinds, command, killing, result
<1>1. TypeOK' BY DEF IInv, TypeOK, LaunchFails
<1>2. ProcInv' BY DEF IInv, DoubtInv, ProcInv, TypeOK, LaunchFails
<1>3. VouchInv' BY DEF IInv, DoubtInv, ProcInv, TypeOK, VouchInv, LaunchFails
<1>4. DoubtInv' BY DEF IInv, DoubtInv, ProcInv, TypeOK, Unsuspected, LaunchFails
<1>5. AloneInv' BY DEF IInv, AloneInv, DoubtInv, ProcInv, TypeOK, Unsuspected, LaunchFails
<1>. QED BY <1>1, <1>2, <1>3, <1>4, <1>5 DEF IInv

LEMMA SampleStep ==
  ASSUME IInv, Sample
  PROVE  IInv'
<1>. USE RunnerAssumption DEF Procs, AllKinds, command, killing, result
<1>1. TypeOK' BY DEF IInv, TypeOK, Sample, Sampled, GoOnUnlessExceeded, KillThen, Known, Shown
<1>2. ProcInv' BY DEF IInv, DoubtInv, ProcInv, TypeOK, Sample, Sampled, GoOnUnlessExceeded, KillThen, Known, Shown
<1>3. VouchInv' BY DEF IInv, DoubtInv, ProcInv, TypeOK, VouchInv, Sample, Sampled, GoOnUnlessExceeded, KillThen, Known, Shown
<1>4. DoubtInv' BY DEF IInv, DoubtInv, ProcInv, TypeOK, Unsuspected, Sample, Sampled, GoOnUnlessExceeded, KillThen, Known, Shown
<1>5. AloneInv' BY DEF IInv, AloneInv, DoubtInv, ProcInv, TypeOK, Unsuspected, Sample, Sampled, GoOnUnlessExceeded, KillThen, Known, Shown
<1>. QED BY <1>1, <1>2, <1>3, <1>4, <1>5 DEF IInv

LEMMA SampleScratchStep ==
  ASSUME IInv, SampleScratch
  PROVE  IInv'
<1>. USE RunnerAssumption DEF Procs, AllKinds, command, killing, result
<1>1. TypeOK' BY DEF IInv, TypeOK, SampleScratch, GoOnUnlessExceeded, KillThen
<1>2. ProcInv' BY DEF IInv, DoubtInv, ProcInv, TypeOK, SampleScratch, GoOnUnlessExceeded, KillThen
<1>3. VouchInv' BY DEF IInv, DoubtInv, ProcInv, TypeOK, VouchInv, SampleScratch, GoOnUnlessExceeded, KillThen
<1>4. DoubtInv' BY DEF IInv, DoubtInv, ProcInv, TypeOK, Unsuspected, SampleScratch, GoOnUnlessExceeded, KillThen
<1>5. AloneInv' BY DEF IInv, AloneInv, DoubtInv, ProcInv, TypeOK, Unsuspected, SampleScratch, GoOnUnlessExceeded, KillThen
<1>. QED BY <1>1, <1>2, <1>3, <1>4, <1>5 DEF IInv

LEMMA NoteExitStep ==
  ASSUME IInv, NoteExit
  PROVE  IInv'
<1>. USE RunnerAssumption DEF Procs, AllKinds, command, killing, result
<1>1. TypeOK' BY DEF IInv, TypeOK, NoteExit
<1>2. ProcInv' BY DEF IInv, DoubtInv, ProcInv, TypeOK, NoteExit
<1>3. VouchInv' BY DEF IInv, DoubtInv, ProcInv, TypeOK, VouchInv, NoteExit
<1>4. DoubtInv' BY DEF IInv, DoubtInv, ProcInv, TypeOK, Unsuspected, NoteExit
<1>5. AloneInv' BY DEF IInv, AloneInv, DoubtInv, ProcInv, TypeOK, Unsuspected, NoteExit
<1>. QED BY <1>1, <1>2, <1>3, <1>4, <1>5 DEF IInv

LEMMA NoticeAbortStep ==
  ASSUME IInv, NoticeAbort
  PROVE  IInv'
<1>. USE RunnerAssumption DEF Procs, AllKinds, command, killing, result
<1>1. TypeOK' BY DEF IInv, TypeOK, NoticeAbort, KillThen
<1>2. ProcInv' BY DEF IInv, DoubtInv, ProcInv, TypeOK, NoticeAbort, KillThen
<1>3. VouchInv' BY DEF IInv, DoubtInv, ProcInv, TypeOK, VouchInv, NoticeAbort, KillThen
<1>4. DoubtInv' BY DEF IInv, DoubtInv, ProcInv, TypeOK, Unsuspected, NoticeAbort, KillThen
<1>5. AloneInv' BY DEF IInv, AloneInv, DoubtInv, ProcInv, TypeOK, Unsuspected, NoticeAbort, KillThen
<1>. QED BY <1>1, <1>2, <1>3, <1>4, <1>5 DEF IInv

LEMMA KillBackgroundStep ==
  ASSUME IInv, KillBackground
  PROVE  IInv'
<1>. USE RunnerAssumption DEF Procs, AllKinds, command, killing, result
<1>1. TypeOK' BY DEF IInv, TypeOK, KillBackground, KillThen
<1>2. ProcInv' BY DEF IInv, DoubtInv, ProcInv, TypeOK, KillBackground, KillThen
<1>3. VouchInv' BY DEF IInv, DoubtInv, ProcInv, TypeOK, VouchInv, KillBackground, KillThen
<1>4. DoubtInv' BY DEF IInv, DoubtInv, ProcInv, TypeOK, Unsuspected, KillBackground, KillThen
<1>5. AloneInv' BY DEF IInv, AloneInv, DoubtInv, ProcInv, TypeOK, Unsuspected, KillBackground, KillThen
<1>. QED BY <1>1, <1>2, <1>3, <1>4, <1>5 DEF IInv

LEMMA TimeOutStep ==
  ASSUME IInv, TimeOut
  PROVE  IInv'
<1>. USE RunnerAssumption DEF Procs, AllKinds, command, killing, result
<1>1. TypeOK' BY DEF IInv, TypeOK, TimeOut, KillThen
<1>2. ProcInv' BY DEF IInv, DoubtInv, ProcInv, TypeOK, TimeOut, KillThen
<1>3. VouchInv' BY DEF IInv, DoubtInv, ProcInv, TypeOK, VouchInv, TimeOut, KillThen
<1>4. DoubtInv' BY DEF IInv, DoubtInv, ProcInv, TypeOK, Unsuspected, TimeOut, KillThen
<1>5. AloneInv' BY DEF IInv, AloneInv, DoubtInv, ProcInv, TypeOK, Unsuspected, TimeOut, KillThen
<1>. QED BY <1>1, <1>2, <1>3, <1>4, <1>5 DEF IInv

LEMMA AwaitStep ==
  ASSUME IInv, Await
  PROVE  IInv'
<1>. USE RunnerAssumption DEF Procs, AllKinds, command, killing, result
<1>1. TypeOK' BY DEF IInv, TypeOK, Await
<1>2. ProcInv' BY DEF IInv, DoubtInv, ProcInv, TypeOK, Await
<1>3. VouchInv' BY DEF IInv, DoubtInv, ProcInv, TypeOK, VouchInv, Await
<1>4. DoubtInv' BY DEF IInv, DoubtInv, ProcInv, TypeOK, Unsuspected, Await
<1>5. AloneInv' BY DEF IInv, AloneInv, DoubtInv, ProcInv, TypeOK, Unsuspected, Await
<1>. QED BY <1>1, <1>2, <1>3, <1>4, <1>5 DEF IInv

LEMMA GiveUpOutputStep ==
  ASSUME IInv, GiveUpOutput
  PROVE  IInv'
<1>. USE RunnerAssumption DEF Procs, AllKinds, command, killing, result
<1>1. TypeOK' BY DEF IInv, TypeOK, GiveUpOutput
<1>2. ProcInv' BY DEF IInv, DoubtInv, ProcInv, TypeOK, GiveUpOutput
<1>3. VouchInv' BY DEF IInv, DoubtInv, ProcInv, TypeOK, VouchInv, GiveUpOutput
<1>4. DoubtInv' BY DEF IInv, DoubtInv, ProcInv, TypeOK, Unsuspected, GiveUpOutput
<1>5. AloneInv' BY DEF IInv, AloneInv, DoubtInv, ProcInv, TypeOK, Unsuspected, GiveUpOutput
<1>. QED BY <1>1, <1>2, <1>3, <1>4, <1>5 DEF IInv

LEMMA OutputEndsStep ==
  ASSUME IInv, OutputEnds
  PROVE  IInv'
<1>. USE RunnerAssumption DEF Procs, AllKinds, command, killing, result
<1>1. TypeOK' BY DEF IInv, TypeOK, OutputEnds
<1>2. ProcInv' BY DEF IInv, DoubtInv, ProcInv, TypeOK, OutputEnds
<1>3. VouchInv' BY DEF IInv, DoubtInv, ProcInv, TypeOK, VouchInv, OutputEnds
<1>4. DoubtInv' BY DEF IInv, DoubtInv, ProcInv, TypeOK, Unsuspected, OutputEnds
<1>5. AloneInv' BY DEF IInv, AloneInv, DoubtInv, ProcInv, TypeOK, Unsuspected, OutputEnds
<1>. QED BY <1>1, <1>2, <1>3, <1>4, <1>5 DEF IInv

LEMMA FailStep ==
  ASSUME IInv, Fail
  PROVE  IInv'
<1>. USE RunnerAssumption DEF Procs, AllKinds, command, killing, result
<1>1. TypeOK' BY DEF IInv, TypeOK, Fail, KillThen
<1>2. ProcInv' BY DEF IInv, DoubtInv, ProcInv, TypeOK, Fail, KillThen
<1>3. VouchInv' BY DEF IInv, DoubtInv, ProcInv, TypeOK, VouchInv, Fail, KillThen
<1>4. DoubtInv' BY DEF IInv, DoubtInv, ProcInv, TypeOK, Unsuspected, Fail, KillThen
<1>5. AloneInv' BY DEF IInv, AloneInv, DoubtInv, ProcInv, TypeOK, Unsuspected, Fail, KillThen
<1>. QED BY <1>1, <1>2, <1>3, <1>4, <1>5 DEF IInv

LEMMA KillListStep ==
  ASSUME IInv, KillList
  PROVE  IInv'
<1>. USE RunnerAssumption DEF Procs, AllKinds, command, killing, result
<1>1. TypeOK' BY DEF IInv, TypeOK, KillList, Unreadable, List, Outlived, Others, Alive, Known, Shown, Doubted
<1>2. ProcInv' BY DEF IInv, DoubtInv, ProcInv, TypeOK, KillList, Unreadable, List, Outlived, Others, Alive, Known, Shown, Doubted
<1>3. VouchInv' BY DEF IInv, DoubtInv, ProcInv, TypeOK, VouchInv, KillList, Unreadable, List, Outlived, Others, Alive, Known, Shown, Doubted
<1>4. DoubtInv' BY DEF IInv, DoubtInv, ProcInv, TypeOK, Unsuspected, KillList, Unreadable, List, Outlived, Others, Alive, Known, Shown, Doubted
<1>5. AloneInv' BY DEF IInv, AloneInv, DoubtInv, ProcInv, TypeOK, Unsuspected, KillList, Unreadable, List, Outlived, Others, Alive, Known, Shown, Doubted
<1>. QED BY <1>1, <1>2, <1>3, <1>4, <1>5 DEF IInv

LEMMA KillSignalStep ==
  ASSUME IInv, KillSignal
  PROVE  IInv'
<1>. USE RunnerAssumption DEF Procs, AllKinds, command, killing, result
<1>1. TypeOK' BY DEF IInv, TypeOK, KillSignal, Signal, InReach
<1>2. ProcInv' BY DEF IInv, DoubtInv, ProcInv, TypeOK, KillSignal, Signal, InReach
<1>3. VouchInv' BY DEF IInv, DoubtInv, ProcInv, TypeOK, VouchInv, KillSignal, Signal, InReach
<1>4. DoubtInv' BY DEF IInv, DoubtInv, ProcInv, TypeOK, Unsuspected, KillSignal, Signal, InReach
<1>5. AloneInv' BY DEF IInv, AloneInv, DoubtInv, ProcInv, TypeOK, Unsuspected, KillSignal, Signal, InReach
<1>. QED BY <1>1, <1>2, <1>3, <1>4, <1>5 DEF IInv

LEMMA KillWaitStep ==
  ASSUME IInv, KillWait
  PROVE  IInv'
<1>. USE RunnerAssumption DEF Procs, AllKinds, command, killing, result
<1>1. TypeOK' BY DEF IInv, TypeOK, KillWait, Unreadable, NothingLeft, StillThere, Signal, Others, Alive, Known, Shown, Doubted
<1>2. ProcInv' BY DEF IInv, DoubtInv, ProcInv, TypeOK, KillWait, Unreadable, NothingLeft, StillThere, Signal, Others, Alive, Known, Shown, Doubted
<1>3. VouchInv' BY DEF IInv, DoubtInv, ProcInv, TypeOK, VouchInv, KillWait, Unreadable, NothingLeft, StillThere, Signal, Others, Alive, Known, Shown, Doubted
<1>4. DoubtInv' BY DEF IInv, DoubtInv, ProcInv, TypeOK, Unsuspected, KillWait, Unreadable, NothingLeft, StillThere, Signal, Others, Alive, Known, Shown, Doubted
<1>5. AloneInv' BY DEF IInv, AloneInv, DoubtInv, ProcInv, TypeOK, Unsuspected, KillWait, Unreadable, NothingLeft, StillThere, Signal, Others, Alive, Known, Shown, Doubted
<1>. QED BY <1>1, <1>2, <1>3, <1>4, <1>5 DEF IInv

LEMMA KillVerdictStep ==
  ASSUME IInv, KillVerdict
  PROVE  IInv'
<1>. USE RunnerAssumption DEF Procs, AllKinds, command, killing, result
<1>1. TypeOK' BY DEF IInv, TypeOK, KillVerdict, Judgement, Deliver, Doubted
<1>2. ProcInv' BY DEF IInv, DoubtInv, ProcInv, TypeOK, KillVerdict, Judgement, Deliver, Doubted
<1>3. VouchInv' BY DEF IInv, DoubtInv, ProcInv, TypeOK, VouchInv, KillVerdict, Judgement, Deliver, Doubted
<1>4. DoubtInv' BY DEF IInv, DoubtInv, ProcInv, TypeOK, Unsuspected, KillVerdict, Judgement, Deliver, Doubted
<1>5. AloneInv' BY DEF IInv, AloneInv, DoubtInv, ProcInv, TypeOK, Unsuspected, KillVerdict, Judgement, Deliver, Doubted
<1>. QED BY <1>1, <1>2, <1>3, <1>4, <1>5 DEF IInv

LEMMA WrapUpStep ==
  ASSUME IInv, WrapUp
  PROVE  IInv'
<1>. USE RunnerAssumption DEF Procs, AllKinds, command, killing, result
<1>1. TypeOK' BY DEF IInv, TypeOK, WrapUp, KillThen
<1>2. ProcInv' BY DEF IInv, DoubtInv, ProcInv, TypeOK, WrapUp, KillThen
<1>3. VouchInv' BY DEF IInv, DoubtInv, ProcInv, TypeOK, VouchInv, WrapUp, KillThen
<1>4. DoubtInv' BY DEF IInv, DoubtInv, ProcInv, TypeOK, Unsuspected, WrapUp, KillThen
<1>5. AloneInv' BY DEF IInv, AloneInv, DoubtInv, ProcInv, TypeOK, Unsuspected, WrapUp, KillThen
<1>. QED BY <1>1, <1>2, <1>3, <1>4, <1>5 DEF IInv

LEMMA TailStep ==
  ASSUME IInv, Tail
  PROVE  IInv'
<1>. USE RunnerAssumption DEF Procs, AllKinds, command, killing, result
<1>1. TypeOK' BY DEF IInv, TypeOK, Tail, FinalCleanup, Sampled, KillThen, Known, Shown
<1>2. ProcInv' BY DEF IInv, DoubtInv, ProcInv, TypeOK, Tail, FinalCleanup, Sampled, KillThen, Known, Shown
<1>3. VouchInv' BY DEF IInv, DoubtInv, ProcInv, TypeOK, VouchInv, Tail, FinalCleanup, Sampled, KillThen, Known, Shown
<1>4. DoubtInv' BY DEF IInv, DoubtInv, ProcInv, TypeOK, Unsuspected, Tail, FinalCleanup, Sampled, KillThen, Known, Shown
<1>5. AloneInv' BY DEF IInv, AloneInv, DoubtInv, ProcInv, TypeOK, Unsuspected, Tail, FinalCleanup, Sampled, KillThen, Known, Shown
<1>. QED BY <1>1, <1>2, <1>3, <1>4, <1>5 DEF IInv

LEMMA KillLeaderStep ==
  ASSUME IInv, KillLeader
  PROVE  IInv'
<1>. USE RunnerAssumption DEF Procs, AllKinds, command, killing, result
<1>1. TypeOK' BY DEF IInv, TypeOK, KillLeader
<1>2. ProcInv' BY DEF IInv, DoubtInv, ProcInv, TypeOK, KillLeader
<1>3. VouchInv' BY DEF IInv, DoubtInv, ProcInv, TypeOK, VouchInv, KillLeader
<1>4. DoubtInv' BY DEF IInv, DoubtInv, ProcInv, TypeOK, Unsuspected, KillLeader
<1>5. AloneInv' BY DEF IInv, AloneInv, DoubtInv, ProcInv, TypeOK, Unsuspected, KillLeader
<1>. QED BY <1>1, <1>2, <1>3, <1>4, <1>5 DEF IInv

LEMMA ReturnStep ==
  ASSUME IInv, Return
  PROVE  IInv'
<1>. USE RunnerAssumption DEF Procs, AllKinds, command, killing, result
<1>1. TypeOK' BY DEF IInv, TypeOK, Return
<1>2. ProcInv' BY DEF IInv, DoubtInv, ProcInv, TypeOK, Return
<1>3. VouchInv' BY DEF IInv, DoubtInv, ProcInv, TypeOK, VouchInv, Return
<1>4. DoubtInv' BY DEF IInv, DoubtInv, ProcInv, TypeOK, Unsuspected, Return
<1>5. AloneInv' BY DEF IInv, AloneInv, DoubtInv, ProcInv, TypeOK, Unsuspected, Return
<1>. QED BY <1>1, <1>2, <1>3, <1>4, <1>5 DEF IInv

LEMMA RescueStep ==
  ASSUME IInv, Rescue
  PROVE  IInv'
<1>. USE RunnerAssumption DEF Procs, AllKinds, command, killing, result
<1>1. TypeOK' BY DEF IInv, TypeOK, Rescue, Deliver, Signal
<1>2. ProcInv' BY DEF IInv, DoubtInv, ProcInv, TypeOK, Rescue, Deliver, Signal
<1>3. VouchInv' BY DEF IInv, DoubtInv, ProcInv, TypeOK, VouchInv, Rescue, Deliver, Signal
<1>4. DoubtInv' BY DEF IInv, DoubtInv, ProcInv, TypeOK, Unsuspected, Rescue, Deliver, Signal
<1>5. AloneInv' BY DEF IInv, AloneInv, DoubtInv, ProcInv, TypeOK, Unsuspected, Rescue, Deliver, Signal
<1>. QED BY <1>1, <1>2, <1>3, <1>4, <1>5 DEF IInv

LEMMA RecheckStep ==
  ASSUME IInv, Recheck
  PROVE  IInv'
<1>. USE RunnerAssumption DEF Procs, AllKinds, command, killing, result
<1>1. TypeOK' BY DEF IInv, TypeOK, Recheck, Deliver
<1>2. ProcInv' BY DEF IInv, DoubtInv, ProcInv, TypeOK, Recheck, Deliver
<1>3. VouchInv' BY DEF IInv, DoubtInv, ProcInv, TypeOK, VouchInv, Recheck, Deliver
<1>4. DoubtInv' BY DEF IInv, DoubtInv, ProcInv, TypeOK, Unsuspected, Recheck, Deliver
<1>5. AloneInv' BY DEF IInv, AloneInv, DoubtInv, ProcInv, TypeOK, Unsuspected, Recheck, Deliver
<1>. QED BY <1>1, <1>2, <1>3, <1>4, <1>5 DEF IInv

LEMMA ForkStep ==
  ASSUME IInv, NEW p \in Procs, NEW c \in Children, Fork(p, c)
  PROVE  IInv'
<1>. USE RunnerAssumption DEF Procs, AllKinds, command, killing, result
<1>1. TypeOK' BY DEF IInv, TypeOK, Fork, Acts
<1>2. ProcInv' BY DEF IInv, DoubtInv, ProcInv, TypeOK, Fork, Acts
<1>3. VouchInv' BY DEF IInv, DoubtInv, ProcInv, TypeOK, VouchInv, Fork, Acts
<1>4. DoubtInv' BY DEF IInv, DoubtInv, ProcInv, TypeOK, Unsuspected, Fork, Acts
<1>5. AloneInv' BY DEF IInv, AloneInv, DoubtInv, ProcInv, TypeOK, Unsuspected, Fork, Acts
<1>. QED BY <1>1, <1>2, <1>3, <1>4, <1>5 DEF IInv

LEMMA LeaveGroupStep ==
  ASSUME IInv, NEW c \in Children, LeaveGroup(c)
  PROVE  IInv'
<1>. USE RunnerAssumption DEF Procs, AllKinds, command, killing, result
<1>1. TypeOK' BY DEF IInv, TypeOK, LeaveGroup, Acts
<1>2. ProcInv' BY DEF IInv, DoubtInv, ProcInv, TypeOK, LeaveGroup, Acts
<1>3. VouchInv' BY DEF IInv, DoubtInv, ProcInv, TypeOK, VouchInv, LeaveGroup, Acts
<1>4. DoubtInv' BY DEF IInv, DoubtInv, ProcInv, TypeOK, Unsuspected, LeaveGroup, Acts
<1>5. AloneInv' BY DEF IInv, AloneInv, DoubtInv, ProcInv, TypeOK, Unsuspected, LeaveGroup, Acts
<1>. QED BY <1>1, <1>2, <1>3, <1>4, <1>5 DEF IInv

LEMMA CloseOutputStep ==
  ASSUME IInv, NEW p \in Procs, CloseOutput(p)
  PROVE  IInv'
<1>. USE RunnerAssumption DEF Procs, AllKinds, command, killing, result
<1>1. TypeOK' BY DEF IInv, TypeOK, CloseOutput, Acts
<1>2. ProcInv' BY DEF IInv, DoubtInv, ProcInv, TypeOK, CloseOutput, Acts
<1>3. VouchInv' BY DEF IInv, DoubtInv, ProcInv, TypeOK, VouchInv, CloseOutput, Acts
<1>4. DoubtInv' BY DEF IInv, DoubtInv, ProcInv, TypeOK, Unsuspected, CloseOutput, Acts
<1>5. AloneInv' BY DEF IInv, AloneInv, DoubtInv, ProcInv, TypeOK, Unsuspected, CloseOutput, Acts
<1>. QED BY <1>1, <1>2, <1>3, <1>4, <1>5 DEF IInv

LEMMA DieStep ==
  ASSUME IInv, NEW p \in Procs, Die(p)
  PROVE  IInv'
<1>. USE RunnerAssumption DEF Procs, AllKinds, command, killing, result
<1>1. TypeOK' BY DEF IInv, TypeOK, Die, Acts
<1>2. ProcInv' BY DEF IInv, DoubtInv, ProcInv, TypeOK, Die, Acts
<1>3. VouchInv' BY DEF IInv, DoubtInv, ProcInv, TypeOK, VouchInv, Die, Acts
<1>4. DoubtInv' BY DEF IInv, DoubtInv, ProcInv, TypeOK, Unsuspected, Die, Acts
<1>5. AloneInv' BY DEF IInv, AloneInv, DoubtInv, ProcInv, TypeOK, Unsuspected, Die, Acts
<1>. QED BY <1>1, <1>2, <1>3, <1>4, <1>5 DEF IInv

LEMMA InitIInv == Init => IInv
BY RunnerAssumption DEF Init, IInv, TypeOK, ProcInv, VouchInv, DoubtInv, AloneInv, Unsuspected, Procs, AllKinds

LEMMA NextIInv == IInv /\ [Next]_vars => IInv'
<1>. SUFFICES ASSUME IInv, [Next]_vars PROVE IInv'
  OBVIOUS
<1>1. ASSUME Runner PROVE IInv'
  BY <1>1, CallStep, LaunchStep, LaunchFailsStep, SampleStep, SampleScratchStep, NoteExitStep, NoticeAbortStep, KillBackgroundStep, TimeOutStep, AwaitStep, GiveUpOutputStep, OutputEndsStep, FailStep, KillListStep, KillSignalStep, KillWaitStep, KillVerdictStep, WrapUpStep, TailStep, KillLeaderStep, ReturnStep, RescueStep, RecheckStep DEF Runner, Steps
<1>2. ASSUME Command PROVE IInv'
  BY <1>2, ForkStep, LeaveGroupStep, CloseOutputStep, DieStep DEF Command
<1>3. ASSUME UNCHANGED vars PROVE IInv'
  BY <1>3 DEF vars, command, killing, result, IInv, TypeOK, ProcInv, VouchInv, DoubtInv,
              AloneInv, Unsuspected
<1>. QED BY <1>1, <1>2, <1>3 DEF Next

\* The inductive invariant of a call.
THEOREM Invariance == Spec => []IInv
BY InitIInv, NextIInv, PTL DEF Spec

\* Type correctness for any number of children.
THEOREM TypeCorrect == Spec => []TypeOK
<1>1. IInv => TypeOK BY DEF IInv
<1>. QED BY <1>1, Invariance, PTL

\* kill_process_family and what follows it: a verdict complete vouches for the
\* leader and for every process the cleanup had tracked.
THEOREM CompleteVerdictsAreTrue == Spec => []CompleteIsTrue
<1>1. IInv => CompleteIsTrue BY DEF IInv, VouchInv, CompleteIsTrue
<1>. QED BY <1>1, Invariance, PTL

\* An ordinary result of a PoC run comes with a verified cleanup.
THEOREM CleanResultsAreVerified == Spec => []CleanIsVerified
<1>1. IInv => CleanIsVerified
  BY DEF IInv, TypeOK, DoubtInv, Unsuspected, CleanIsVerified, Clean
<1>. QED BY <1>1, Invariance, PTL

\* An ordinary result of a PoC run is of one that left nobody to be killed.
THEOREM CleanResultsAreAlone == Spec => []CleanIsAlone
<1>1. IInv => CleanIsAlone
  BY DEF IInv, TypeOK, AloneInv, Unsuspected, CleanIsAlone, Clean
<1>. QED BY <1>1, Invariance, PTL
=============================================================================
