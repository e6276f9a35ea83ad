-------------------------- MODULE PreshardedProofs --------------------------
(***************************************************************************)
(* Proofs about Presharded, for any number of ranks, configs, tensors and  *)
(* killed launches, as long as no rank fails alone before the dump is      *)
(* done: READY stands for a whole dump, and all ranks take the same path.  *)
(***************************************************************************)
EXTENDS Presharded, TLAPS

\* How far r is in the dump: p's work is done.
Did(r, p) == phase[r] > p \/ (phase[r] = p /\ arrived[r])

\* A plan that rank 0 made of the manifests of this launch.
GoodPlan ==
  /\ plan.state = "whole" /\ plan.config = config
  /\ \A r \in Ranks : plan.held[r] = Weights[config][r]
  /\ DOMAIN plan.writer = UNION {Held(plan.held, r) : r \in Ranks}
  /\ \A k \in DOMAIN plan.writer : plan.writer[k] \in Holders(plan.held, k)

\* The ranks of the dump are in order: who passed a barrier left nobody before it.
InStep ==
  \A r, q \in Ranks : at[r] \in {"dump", "done", "dead"} /\ phase[r] > 0 =>
    at[q] \in {"dump", "done", "dead"} /\ Did(q, phase[r] - 1)

\* Where a rank that is not in the dump can be.
Elsewhere(r) ==
  /\ at[r] \in {"check", "load"} => phase[r] = 0 /\ ~arrived[r]
  /\ at[r] \in {"done", "dead"} => phase[r] \in {0, 6} /\ ~arrived[r]
  /\ at[r] = "dump" => phase[r] < 6

\* Both paths at once are impossible, and the disk tells which one it is.
Path ==
  /\ \A r \in Ranks : at[r] = "load" \/ (at[r] \in {"done", "dead"} /\ phase[r] = 0) =>
       Usable
  /\ \A r \in Ranks : at[r] = "dump" /\ phase[r] = 0 => ~Usable
  /\ \A r, q \in Ranks : at[r] = "dump" =>
       at[q] # "load" /\ ~(at[q] \in {"done", "dead"} /\ phase[q] = 0)

\* READY is gone from rank 0's unlink to its publication.
Hidden ==
  at[0] = "dump" /\ Did(0, 1) /\ ~Did(0, 5) => ~ready

ManifestsOfThis ==
  \A r \in Ranks : at[r] = "dump" /\ Did(r, 2) /\ phase[r] < 4 => manifest[r] = config

PlanOfThis ==
  at[0] \in {"dump", "done", "dead"} /\ Did(0, 3) => GoodPlan

FilesOfThis ==
  \A r \in Ranks :
    /\ at[r] \in {"check", "dump"} /\ phase[r] < 4 => wrote[r] = {}
    /\ at[r] = "dump" /\ phase[r] >= 4 =>
         \A f \in wrote[r] : f \in Mine(plan, r) /\ file[f] = Contents(plan, f)
    /\ at[r] = "dump" /\ Did(r, 4) => wrote[r] = Mine(plan, r)

IInv ==
  /\ TypeOK /\ InStep /\ \A r \in Ranks : Elsewhere(r)
  /\ Path /\ Hidden /\ ManifestsOfThis /\ PlanOfThis /\ FilesOfThis /\ ReadyMeansWhole

\* No rank fails alone before the dump is done.
Together == FailAt \cap {"check", "dump"} = {}

-----------------------------------------------------------------------------
\* Rank 0 exists, and steps between phases stay among them.
LEMMA RankZero == 0 \in Ranks /\ Ranks \subseteq Nat
BY PreshardedAssumption DEF Ranks

LEMMA InitInv == Init => IInv
<1> SUFFICES ASSUME Init PROVE IInv
  OBVIOUS
<1> USE PreshardedAssumption, RankZero DEF Init, AllOff, NoPlan
<1>1. TypeOK BY DEF TypeOK
<1>2. InStep /\ (\A r \in Ranks : Elsewhere(r)) BY DEF InStep, Elsewhere
<1>3. Path /\ Hidden /\ ManifestsOfThis /\ PlanOfThis /\ FilesOfThis
  BY DEF Path, Hidden, ManifestsOfThis, PlanOfThis, FilesOfThis
<1>4. ReadyMeansWhole BY DEF ReadyMeansWhole
<1> QED BY <1>1, <1>2, <1>3, <1>4 DEF IInv

\* Types.
LEMMA TypeStep == TypeOK /\ (\A p \in Ranks : Elsewhere(p)) /\ [Next]_vars => TypeOK'
<1> SUFFICES ASSUME TypeOK, (\A p \in Ranks : Elsewhere(p)), [Next]_vars PROVE TypeOK'
  OBVIOUS
<1> USE PreshardedAssumption, RankZero DEF disk, launch
<1>1. ASSUME NEW c \in Configs, NEW v \in BOOLEAN, Launch(c, v) PROVE TypeOK'
  BY <1>1 DEF TypeOK, Elsewhere, Launch, AllOff
<1>2. ASSUME NEW r \in Ranks, Check(r) PROVE TypeOK'
  BY <1>2 DEF TypeOK, Elsewhere, Check
<1>3. ASSUME NEW r \in Ranks, Load(r) PROVE TypeOK'
  BY <1>3 DEF TypeOK, Elsewhere, Load
<1>4. ASSUME NEW r \in Ranks, Wait(r) PROVE TypeOK'
  BY <1>4 DEF TypeOK, Elsewhere, Wait, Arrive, Working
<1>5. ASSUME NEW r \in Ranks, LoadCheckpoint(r) PROVE TypeOK'
  BY <1>5 DEF TypeOK, Elsewhere, LoadCheckpoint, Arrive, Working, Unlinked
<1>6. ASSUME NEW r \in Ranks, WriteManifest(r) PROVE TypeOK'
  BY <1>6 DEF TypeOK, Elsewhere, WriteManifest, Arrive, Working
<1>7. CASE OpenPlan
  BY <1>7 DEF TypeOK, Elsewhere, OpenPlan, TornPlan, Working
<1>8. CASE WritePlan
  BY <1>8 DEF TypeOK, Elsewhere, WritePlan, Arrive, Working, Plan
<1>9. ASSUME NEW r \in Ranks, OpenFile(r) PROVE TypeOK'
  BY <1>9 DEF TypeOK, Elsewhere, OpenFile, Working
<1>10. ASSUME NEW r \in Ranks, WriteFile(r) PROVE TypeOK'
  <2>1. Mine(plan, r) \subseteq [by : SUBSET Ranks, writer : Ranks]
    BY DEF Mine, FileOf, Holders
  <2> QED BY <1>10, <2>1 DEF TypeOK, WriteFile
<1>11. ASSUME NEW r \in Ranks, FilesWritten(r) PROVE TypeOK'
  BY <1>11 DEF TypeOK, Elsewhere, FilesWritten, Arrive, Working, AllWritten
<1>12. CASE Publish
  BY <1>12 DEF TypeOK, Elsewhere, Publish, Arrive, Working
<1>13. ASSUME NEW r \in Ranks, PassBarrier(r) PROVE TypeOK'
  BY <1>13 DEF TypeOK, Elsewhere, PassBarrier, LetsPass, LastBarrier
<1>14. CASE Crash
  BY <1>14 DEF TypeOK, Elsewhere, Crash, AllOff
<1>15. CASE Reap
  BY <1>15 DEF TypeOK, Elsewhere, Reap, AllOff
<1>16. ASSUME NEW r \in Ranks, Fail(r) PROVE TypeOK'
  BY <1>16 DEF TypeOK, Elsewhere, Fail, Together
<1>17. CASE Rot
  BY <1>17 DEF TypeOK, Elsewhere, Rot, AllOff
<1>18. CASE Serve
  BY <1>18 DEF TypeOK, Elsewhere, Serve, vars
<1>19. CASE UNCHANGED vars
  BY <1>19 DEF TypeOK, Elsewhere, vars
<1> QED
  BY <1>1, <1>2, <1>3, <1>4, <1>5, <1>6, <1>7, <1>8, <1>9, <1>10, <1>11, <1>12, <1>13, <1>14, <1>15, <1>16, <1>17, <1>18, <1>19 DEF Next, Rank

\* While the ranks dump, rank 0 finds every manifest, and every rank a plan whose
\* files are known.
LEMMA DumpGoesOn ==
  ASSUME IInv
  PROVE  /\ Working(0, 3) => \A r \in Ranks : manifest[r] # NoConfig
         /\ \A r \in Ranks : at[r] = "dump" /\ phase[r] >= 4 => GoodPlan
<1> USE PreshardedAssumption, RankZero DEF IInv, TypeOK
<1>1. Working(0, 3) => \A r \in Ranks : manifest[r] # NoConfig
  BY DEF Working, InStep, Did, ManifestsOfThis, Elsewhere
<1>2. ASSUME NEW r \in Ranks, at[r] = "dump", phase[r] >= 4 PROVE GoodPlan
  BY <1>2 DEF InStep, Did, PlanOfThis, Elsewhere
<1> QED BY <1>1, <1>2

\* Each tensor of a good plan is in a file of the rank that writes it.
LEMMA GoodFiles ==
  ASSUME GoodPlan
  PROVE  /\ \A r \in Ranks : Mine(plan, r) \subseteq Files
         /\ \A r \in Ranks : \A f \in Mine(plan, r) : f.writer = r
         /\ \A r \in Ranks : \A k \in Held(plan.held, r) :
              /\ k \in DOMAIN plan.writer /\ plan.writer[k] \in Ranks
              /\ FileOf(plan, k) \in Mine(plan, plan.writer[k])
              /\ Entry(k, k) \in Contents(plan, FileOf(plan, k))
<1>1. \A k \in DOMAIN plan.writer : plan.writer[k] \in Ranks /\ FileOf(plan, k) \in Files
  BY DEF GoodPlan, Holders, FileOf, Files
<1>2. \A r \in Ranks : Mine(plan, r) \subseteq Files
  BY <1>1 DEF Mine
<1>3. \A r \in Ranks : \A f \in Mine(plan, r) : f.writer = r
  BY DEF Mine, FileOf
<1>4. ASSUME NEW r \in Ranks, NEW k \in Held(plan.held, r)
      PROVE  /\ k \in DOMAIN plan.writer /\ plan.writer[k] \in Ranks
             /\ FileOf(plan, k) \in Mine(plan, plan.writer[k])
             /\ Entry(k, k) \in Contents(plan, FileOf(plan, k))
  <2>1. k \in DOMAIN plan.writer BY DEF GoodPlan
  <2> QED BY <2>1, <1>1 DEF Mine, Contents
<1> QED BY <1>2, <1>3, <1>4

\* Where a rank outside the dump can be.
LEMMA ElsewhereStep == IInv /\ Together /\ [Next]_vars => (\A p \in Ranks : Elsewhere(p))'
<1> SUFFICES ASSUME IInv, Together, [Next]_vars PROVE (\A p \in Ranks : Elsewhere(p))'
  OBVIOUS
<1> USE PreshardedAssumption, RankZero DEF disk, launch
<1>1. ASSUME NEW c \in Configs, NEW v \in BOOLEAN, Launch(c, v) PROVE (\A p \in Ranks : Elsewhere(p))'
  BY <1>1, DumpGoesOn DEF IInv, TypeOK, GoodPlan, Elsewhere, Launch, AllOff
<1>2. ASSUME NEW r \in Ranks, Check(r) PROVE (\A p \in Ranks : Elsewhere(p))'
  BY <1>2, DumpGoesOn DEF IInv, TypeOK, GoodPlan, Elsewhere, Check
<1>3. ASSUME NEW r \in Ranks, Load(r) PROVE (\A p \in Ranks : Elsewhere(p))'
  BY <1>3, DumpGoesOn DEF IInv, TypeOK, GoodPlan, Elsewhere, Load
<1>4. ASSUME NEW r \in Ranks, Wait(r) PROVE (\A p \in Ranks : Elsewhere(p))'
  BY <1>4, DumpGoesOn DEF IInv, TypeOK, GoodPlan, Elsewhere, Wait, Arrive, Working
<1>5. ASSUME NEW r \in Ranks, LoadCheckpoint(r) PROVE (\A p \in Ranks : Elsewhere(p))'
  BY <1>5, DumpGoesOn DEF IInv, TypeOK, GoodPlan, Elsewhere, LoadCheckpoint, Arrive, Working, Unlinked
<1>6. ASSUME NEW r \in Ranks, WriteManifest(r) PROVE (\A p \in Ranks : Elsewhere(p))'
  BY <1>6, DumpGoesOn DEF IInv, TypeOK, GoodPlan, Elsewhere, WriteManifest, Arrive, Working
<1>7. CASE OpenPlan
  BY <1>7, DumpGoesOn DEF IInv, TypeOK, GoodPlan, Elsewhere, OpenPlan, TornPlan, Working
<1>8. CASE WritePlan
  BY <1>8, DumpGoesOn DEF IInv, TypeOK, GoodPlan, Elsewhere, WritePlan, Arrive, Working, Plan
<1>9. ASSUME NEW r \in Ranks, OpenFile(r) PROVE (\A p \in Ranks : Elsewhere(p))'
  BY <1>9, DumpGoesOn DEF IInv, TypeOK, GoodPlan, Elsewhere, OpenFile, Working
<1>10. ASSUME NEW r \in Ranks, WriteFile(r) PROVE (\A p \in Ranks : Elsewhere(p))'
  BY <1>10, DumpGoesOn DEF IInv, TypeOK, GoodPlan, Elsewhere, WriteFile, Working
<1>11. ASSUME NEW r \in Ranks, FilesWritten(r) PROVE (\A p \in Ranks : Elsewhere(p))'
  BY <1>11, DumpGoesOn DEF IInv, TypeOK, GoodPlan, Elsewhere, FilesWritten, Arrive, Working, AllWritten
<1>12. CASE Publish
  BY <1>12, DumpGoesOn DEF IInv, TypeOK, GoodPlan, Elsewhere, Publish, Arrive, Working
<1>13. ASSUME NEW r \in Ranks, PassBarrier(r) PROVE (\A p \in Ranks : Elsewhere(p))'
  BY <1>13, DumpGoesOn DEF IInv, TypeOK, GoodPlan, Elsewhere, PassBarrier, LetsPass, LastBarrier
<1>14. CASE Crash
  BY <1>14, DumpGoesOn DEF IInv, TypeOK, GoodPlan, Elsewhere, Crash, AllOff
<1>15. CASE Reap
  BY <1>15, DumpGoesOn DEF IInv, TypeOK, GoodPlan, Elsewhere, Reap, AllOff
<1>16. ASSUME NEW r \in Ranks, Fail(r) PROVE (\A p \in Ranks : Elsewhere(p))'
  BY <1>16, DumpGoesOn DEF IInv, TypeOK, GoodPlan, Elsewhere, Fail, Together
<1>17. CASE Rot
  BY <1>17, DumpGoesOn DEF IInv, TypeOK, GoodPlan, Elsewhere, Rot, AllOff
<1>18. CASE Serve
  BY <1>18, DumpGoesOn DEF IInv, TypeOK, GoodPlan, Elsewhere, Serve, vars
<1>19. CASE UNCHANGED vars
  BY <1>19, DumpGoesOn DEF IInv, TypeOK, GoodPlan, Elsewhere, vars
<1> QED
  BY <1>1, <1>2, <1>3, <1>4, <1>5, <1>6, <1>7, <1>8, <1>9, <1>10, <1>11, <1>12, <1>13, <1>14, <1>15, <1>16, <1>17, <1>18, <1>19 DEF Next, Rank

\* The barriers keep the ranks in step.
LEMMA InStepStep == IInv /\ Together /\ [Next]_vars => InStep'
<1> SUFFICES ASSUME IInv, Together, [Next]_vars PROVE InStep'
  OBVIOUS
<1> USE PreshardedAssumption, RankZero DEF disk, launch
<1>1. ASSUME NEW c \in Configs, NEW v \in BOOLEAN, Launch(c, v) PROVE InStep'
  BY <1>1, DumpGoesOn DEF IInv, TypeOK, GoodPlan, Elsewhere, InStep, Did, Launch, AllOff
<1>2. ASSUME NEW r \in Ranks, Check(r) PROVE InStep'
  BY <1>2, DumpGoesOn DEF IInv, TypeOK, GoodPlan, Elsewhere, InStep, Did, Check
<1>3. ASSUME NEW r \in Ranks, Load(r) PROVE InStep'
  BY <1>3, DumpGoesOn DEF IInv, TypeOK, GoodPlan, Elsewhere, InStep, Did, Load
<1>4. ASSUME NEW r \in Ranks, Wait(r) PROVE InStep'
  BY <1>4, DumpGoesOn DEF IInv, TypeOK, GoodPlan, Elsewhere, InStep, Did, Wait, Arrive, Working
<1>5. ASSUME NEW r \in Ranks, LoadCheckpoint(r) PROVE InStep'
  BY <1>5, DumpGoesOn DEF IInv, TypeOK, GoodPlan, Elsewhere, InStep, Did, LoadCheckpoint, Arrive, Working, Unlinked
<1>6. ASSUME NEW r \in Ranks, WriteManifest(r) PROVE InStep'
  BY <1>6, DumpGoesOn DEF IInv, TypeOK, GoodPlan, Elsewhere, InStep, Did, WriteManifest, Arrive, Working
<1>7. CASE OpenPlan
  BY <1>7, DumpGoesOn DEF IInv, TypeOK, GoodPlan, Elsewhere, InStep, Did, OpenPlan, TornPlan, Working
<1>8. CASE WritePlan
  BY <1>8, DumpGoesOn DEF IInv, TypeOK, GoodPlan, Elsewhere, InStep, Did, WritePlan, Arrive, Working, Plan
<1>9. ASSUME NEW r \in Ranks, OpenFile(r) PROVE InStep'
  BY <1>9, DumpGoesOn DEF IInv, TypeOK, GoodPlan, Elsewhere, InStep, Did, OpenFile, Working
<1>10. ASSUME NEW r \in Ranks, WriteFile(r) PROVE InStep'
  BY <1>10, DumpGoesOn DEF IInv, TypeOK, GoodPlan, Elsewhere, InStep, Did, WriteFile, Working
<1>11. ASSUME NEW r \in Ranks, FilesWritten(r) PROVE InStep'
  BY <1>11, DumpGoesOn DEF IInv, TypeOK, GoodPlan, Elsewhere, InStep, Did, FilesWritten, Arrive, Working, AllWritten
<1>12. CASE Publish
  BY <1>12, DumpGoesOn DEF IInv, TypeOK, GoodPlan, Elsewhere, InStep, Did, Publish, Arrive, Working
<1>13. ASSUME NEW r \in Ranks, PassBarrier(r) PROVE InStep'
  <2> SUFFICES ASSUME NEW p \in Ranks, NEW q \in Ranks,
                      at'[p] \in {"dump", "done", "dead"}, phase'[p] > 0
               PROVE  at'[q] \in {"dump", "done", "dead"} /\ Did(q, phase[p] - 1)'
    BY DEF InStep
  <2> USE <1>13 DEF IInv, TypeOK, PassBarrier
  <2>1. phase[r] \in 0..5 /\ phase'[r] = phase[r] + 1 /\ ~arrived'[r] /\ at'[r] \in {"dump", "done"}
    BY DEF Elsewhere
  <2>2. CASE p = r /\ q = r
    BY <2>1, <2>2 DEF Did
  <2>3. CASE p = r /\ q # r
    <3>1. at[q] \in {"dump", "done", "dead"} /\ Did(q, phase[r])
      BY <2>3, <2>1 DEF LetsPass, Did, Path, Elsewhere
    <3> QED BY <3>1, <2>1, <2>3 DEF Did
  <2>4. CASE p # r /\ q = r
    BY <2>1, <2>4 DEF InStep, Did
  <2>5. CASE p # r /\ q # r
    BY <2>5 DEF InStep, Did
  <2> QED BY <2>2, <2>3, <2>4, <2>5
<1>14. CASE Crash
  BY <1>14, DumpGoesOn DEF IInv, TypeOK, GoodPlan, Elsewhere, InStep, Did, Crash, AllOff
<1>15. CASE Reap
  BY <1>15, DumpGoesOn DEF IInv, TypeOK, GoodPlan, Elsewhere, InStep, Did, Reap, AllOff
<1>16. ASSUME NEW r \in Ranks, Fail(r) PROVE InStep'
  BY <1>16, DumpGoesOn DEF IInv, TypeOK, GoodPlan, Elsewhere, InStep, Did, Fail, Together
<1>17. CASE Rot
  BY <1>17, DumpGoesOn DEF IInv, TypeOK, GoodPlan, Elsewhere, InStep, Did, Rot, AllOff
<1>18. CASE Serve
  BY <1>18, DumpGoesOn DEF IInv, TypeOK, GoodPlan, Elsewhere, InStep, Did, Serve, vars
<1>19. CASE UNCHANGED vars
  BY <1>19, DumpGoesOn DEF IInv, TypeOK, GoodPlan, Elsewhere, InStep, Did, vars
<1> QED
  BY <1>1, <1>2, <1>3, <1>4, <1>5, <1>6, <1>7, <1>8, <1>9, <1>10, <1>11, <1>12, <1>13, <1>14, <1>15, <1>16, <1>17, <1>18, <1>19 DEF Next, Rank

\* One path at a time, and the disk tells which.
LEMMA PathStep == IInv /\ Together /\ [Next]_vars => Path'
<1> SUFFICES ASSUME IInv, Together, [Next]_vars PROVE Path'
  OBVIOUS
<1> USE PreshardedAssumption, RankZero DEF disk, launch
<1>1. ASSUME NEW c \in Configs, NEW v \in BOOLEAN, Launch(c, v) PROVE Path'
  BY <1>1 DEF IInv, TypeOK, Elsewhere, Path, Usable, Launch, AllOff
<1>2. ASSUME NEW r \in Ranks, Check(r) PROVE Path'
  BY <1>2 DEF IInv, TypeOK, Elsewhere, Path, Usable, InStep, Did, Check
<1>3. ASSUME NEW r \in Ranks, Load(r) PROVE Path'
  BY <1>3 DEF IInv, TypeOK, Elsewhere, Path, Usable, Load
<1>4. ASSUME NEW r \in Ranks, Wait(r) PROVE Path'
  BY <1>4 DEF IInv, TypeOK, Elsewhere, Path, Usable, Wait, Arrive, Working
<1>5. ASSUME NEW r \in Ranks, LoadCheckpoint(r) PROVE Path'
  BY <1>5 DEF IInv, TypeOK, Elsewhere, Path, Usable, LoadCheckpoint, Arrive, Working, Unlinked
<1>6. ASSUME NEW r \in Ranks, WriteManifest(r) PROVE Path'
  BY <1>6 DEF IInv, TypeOK, Elsewhere, Path, Usable, WriteManifest, Arrive, Working
<1>7. CASE OpenPlan
  BY <1>7 DEF IInv, TypeOK, Elsewhere, Path, Usable, InStep, Did, OpenPlan, TornPlan, Working
<1>8. CASE WritePlan
  BY <1>8 DEF IInv, TypeOK, Elsewhere, Path, Usable, InStep, Did, WritePlan, Arrive, Working, Plan
<1>9. ASSUME NEW r \in Ranks, OpenFile(r) PROVE Path'
  BY <1>9 DEF IInv, TypeOK, Elsewhere, Path, Usable, OpenFile, Working
<1>10. ASSUME NEW r \in Ranks, WriteFile(r) PROVE Path'
  BY <1>10 DEF IInv, TypeOK, Elsewhere, Path, Usable, WriteFile, Working
<1>11. ASSUME NEW r \in Ranks, FilesWritten(r) PROVE Path'
  BY <1>11 DEF IInv, TypeOK, Elsewhere, Path, Usable, FilesWritten, Arrive, Working, AllWritten
<1>12. CASE Publish
  BY <1>12 DEF IInv, TypeOK, Elsewhere, Path, Usable, InStep, Did, Publish, Arrive, Working
<1>13. ASSUME NEW r \in Ranks, PassBarrier(r) PROVE Path'
  BY <1>13 DEF IInv, TypeOK, Elsewhere, Path, Usable, PassBarrier, LetsPass, LastBarrier
<1>14. CASE Crash
  BY <1>14 DEF IInv, TypeOK, Elsewhere, Path, Usable, Crash, AllOff
<1>15. CASE Reap
  BY <1>15 DEF IInv, TypeOK, Elsewhere, Path, Usable, Reap, AllOff
<1>16. ASSUME NEW r \in Ranks, Fail(r) PROVE Path'
  BY <1>16 DEF IInv, TypeOK, Elsewhere, Path, Usable, Fail, Together
<1>17. CASE Rot
  BY <1>17 DEF IInv, TypeOK, Elsewhere, Path, Usable, Rot, AllOff
<1>18. CASE Serve
  BY <1>18 DEF IInv, TypeOK, Elsewhere, Path, Usable, Serve, vars
<1>19. CASE UNCHANGED vars
  BY <1>19 DEF IInv, TypeOK, Elsewhere, Path, Usable, vars
<1> QED
  BY <1>1, <1>2, <1>3, <1>4, <1>5, <1>6, <1>7, <1>8, <1>9, <1>10, <1>11, <1>12, <1>13, <1>14, <1>15, <1>16, <1>17, <1>18, <1>19 DEF Next, Rank

\* READY stays away while rank 0 dumps.
LEMMA HiddenStep == IInv /\ Together /\ [Next]_vars => Hidden'
<1> SUFFICES ASSUME IInv, Together, [Next]_vars PROVE Hidden'
  OBVIOUS
<1> USE PreshardedAssumption, RankZero DEF disk, launch
<1>1. ASSUME NEW c \in Configs, NEW v \in BOOLEAN, Launch(c, v) PROVE Hidden'
  BY <1>1 DEF IInv, TypeOK, Elsewhere, Hidden, Did, Launch, AllOff
<1>2. ASSUME NEW r \in Ranks, Check(r) PROVE Hidden'
  BY <1>2 DEF IInv, TypeOK, Elsewhere, Hidden, Did, Check
<1>3. ASSUME NEW r \in Ranks, Load(r) PROVE Hidden'
  BY <1>3 DEF IInv, TypeOK, Elsewhere, Hidden, Did, Load
<1>4. ASSUME NEW r \in Ranks, Wait(r) PROVE Hidden'
  BY <1>4 DEF IInv, TypeOK, Elsewhere, Hidden, Did, Wait, Arrive, Working
<1>5. ASSUME NEW r \in Ranks, LoadCheckpoint(r) PROVE Hidden'
  BY <1>5 DEF IInv, TypeOK, Elsewhere, Hidden, Did, LoadCheckpoint, Arrive, Working, Unlinked
<1>6. ASSUME NEW r \in Ranks, WriteManifest(r) PROVE Hidden'
  BY <1>6 DEF IInv, TypeOK, Elsewhere, Hidden, Did, WriteManifest, Arrive, Working
<1>7. CASE OpenPlan
  BY <1>7 DEF IInv, TypeOK, Elsewhere, Hidden, Did, OpenPlan, TornPlan, Working
<1>8. CASE WritePlan
  BY <1>8 DEF IInv, TypeOK, Elsewhere, Hidden, Did, WritePlan, Arrive, Working, Plan
<1>9. ASSUME NEW r \in Ranks, OpenFile(r) PROVE Hidden'
  BY <1>9 DEF IInv, TypeOK, Elsewhere, Hidden, Did, OpenFile, Working
<1>10. ASSUME NEW r \in Ranks, WriteFile(r) PROVE Hidden'
  BY <1>10 DEF IInv, TypeOK, Elsewhere, Hidden, Did, WriteFile, Working
<1>11. ASSUME NEW r \in Ranks, FilesWritten(r) PROVE Hidden'
  BY <1>11 DEF IInv, TypeOK, Elsewhere, Hidden, Did, FilesWritten, Arrive, Working, AllWritten
<1>12. CASE Publish
  BY <1>12 DEF IInv, TypeOK, Elsewhere, Hidden, Did, Publish, Arrive, Working
<1>13. ASSUME NEW r \in Ranks, PassBarrier(r) PROVE Hidden'
  BY <1>13 DEF IInv, TypeOK, Elsewhere, Hidden, Did, PassBarrier, LetsPass, LastBarrier
<1>14. CASE Crash
  BY <1>14 DEF IInv, TypeOK, Elsewhere, Hidden, Did, Crash, AllOff
<1>15. CASE Reap
  BY <1>15 DEF IInv, TypeOK, Elsewhere, Hidden, Did, Reap, AllOff
<1>16. ASSUME NEW r \in Ranks, Fail(r) PROVE Hidden'
  BY <1>16 DEF IInv, TypeOK, Elsewhere, Hidden, Did, Fail, Together
<1>17. CASE Rot
  BY <1>17 DEF IInv, TypeOK, Elsewhere, Hidden, Did, Rot, AllOff
<1>18. CASE Serve
  BY <1>18 DEF IInv, TypeOK, Elsewhere, Hidden, Did, Serve, vars
<1>19. CASE UNCHANGED vars
  BY <1>19 DEF IInv, TypeOK, Elsewhere, Hidden, Did, vars
<1> QED
  BY <1>1, <1>2, <1>3, <1>4, <1>5, <1>6, <1>7, <1>8, <1>9, <1>10, <1>11, <1>12, <1>13, <1>14, <1>15, <1>16, <1>17, <1>18, <1>19 DEF Next, Rank

\* The manifests are this launch's.
LEMMA ManifestStep == IInv /\ Together /\ [Next]_vars => ManifestsOfThis'
<1> SUFFICES ASSUME IInv, Together, [Next]_vars PROVE ManifestsOfThis'
  OBVIOUS
<1> USE PreshardedAssumption, RankZero DEF disk, launch
<1>1. ASSUME NEW c \in Configs, NEW v \in BOOLEAN, Launch(c, v) PROVE ManifestsOfThis'
  BY <1>1 DEF IInv, TypeOK, Elsewhere, ManifestsOfThis, Did, Launch, AllOff
<1>2. ASSUME NEW r \in Ranks, Check(r) PROVE ManifestsOfThis'
  BY <1>2 DEF IInv, TypeOK, Elsewhere, ManifestsOfThis, Did, Check
<1>3. ASSUME NEW r \in Ranks, Load(r) PROVE ManifestsOfThis'
  BY <1>3 DEF IInv, TypeOK, Elsewhere, ManifestsOfThis, Did, Load
<1>4. ASSUME NEW r \in Ranks, Wait(r) PROVE ManifestsOfThis'
  BY <1>4 DEF IInv, TypeOK, Elsewhere, ManifestsOfThis, Did, Wait, Arrive, Working
<1>5. ASSUME NEW r \in Ranks, LoadCheckpoint(r) PROVE ManifestsOfThis'
  BY <1>5 DEF IInv, TypeOK, Elsewhere, ManifestsOfThis, Did, LoadCheckpoint, Arrive, Working, Unlinked
<1>6. ASSUME NEW r \in Ranks, WriteManifest(r) PROVE ManifestsOfThis'
  BY <1>6 DEF IInv, TypeOK, Elsewhere, ManifestsOfThis, Did, WriteManifest, Arrive, Working
<1>7. CASE OpenPlan
  BY <1>7 DEF IInv, TypeOK, Elsewhere, ManifestsOfThis, Did, OpenPlan, TornPlan, Working
<1>8. CASE WritePlan
  BY <1>8 DEF IInv, TypeOK, Elsewhere, ManifestsOfThis, Did, WritePlan, Arrive, Working, Plan
<1>9. ASSUME NEW r \in Ranks, OpenFile(r) PROVE ManifestsOfThis'
  BY <1>9 DEF IInv, TypeOK, Elsewhere, ManifestsOfThis, Did, OpenFile, Working
<1>10. ASSUME NEW r \in Ranks, WriteFile(r) PROVE ManifestsOfThis'
  BY <1>10 DEF IInv, TypeOK, Elsewhere, ManifestsOfThis, Did, WriteFile, Working
<1>11. ASSUME NEW r \in Ranks, FilesWritten(r) PROVE ManifestsOfThis'
  BY <1>11 DEF IInv, TypeOK, Elsewhere, ManifestsOfThis, Did, FilesWritten, Arrive, Working, AllWritten
<1>12. CASE Publish
  BY <1>12 DEF IInv, TypeOK, Elsewhere, ManifestsOfThis, Did, InStep, Publish, Arrive, Working
<1>13. ASSUME NEW r \in Ranks, PassBarrier(r) PROVE ManifestsOfThis'
  BY <1>13 DEF IInv, TypeOK, Elsewhere, ManifestsOfThis, Did, PassBarrier, LetsPass, LastBarrier
<1>14. CASE Crash
  BY <1>14 DEF IInv, TypeOK, Elsewhere, ManifestsOfThis, Did, Crash, AllOff
<1>15. CASE Reap
  BY <1>15 DEF IInv, TypeOK, Elsewhere, ManifestsOfThis, Did, Reap, AllOff
<1>16. ASSUME NEW r \in Ranks, Fail(r) PROVE ManifestsOfThis'
  BY <1>16 DEF IInv, TypeOK, Elsewhere, ManifestsOfThis, Did, Fail, Together
<1>17. CASE Rot
  BY <1>17 DEF IInv, TypeOK, Elsewhere, ManifestsOfThis, Did, Rot, AllOff
<1>18. CASE Serve
  BY <1>18 DEF IInv, TypeOK, Elsewhere, ManifestsOfThis, Did, Serve, vars
<1>19. CASE UNCHANGED vars
  BY <1>19 DEF IInv, TypeOK, Elsewhere, ManifestsOfThis, Did, vars
<1> QED
  BY <1>1, <1>2, <1>3, <1>4, <1>5, <1>6, <1>7, <1>8, <1>9, <1>10, <1>11, <1>12, <1>13, <1>14, <1>15, <1>16, <1>17, <1>18, <1>19 DEF Next, Rank

\* The plan is this launch's.
LEMMA PlanStep == IInv /\ Together /\ [Next]_vars => PlanOfThis'
<1> SUFFICES ASSUME IInv, Together, [Next]_vars PROVE PlanOfThis'
  OBVIOUS
<1> USE PreshardedAssumption, RankZero DEF disk, launch
<1>1. ASSUME NEW c \in Configs, NEW v \in BOOLEAN, Launch(c, v) PROVE PlanOfThis'
  BY <1>1 DEF IInv, TypeOK, Elsewhere, PlanOfThis, GoodPlan, Did, Launch, AllOff
<1>2. ASSUME NEW r \in Ranks, Check(r) PROVE PlanOfThis'
  BY <1>2 DEF IInv, TypeOK, Elsewhere, PlanOfThis, GoodPlan, Did, Check
<1>3. ASSUME NEW r \in Ranks, Load(r) PROVE PlanOfThis'
  <2>1. UNCHANGED <<plan, config, phase, arrived>> /\ at[r] = "load" /\ \A p \in Ranks : p # r => at'[p] = at[p]
    BY <1>3 DEF Load, IInv, TypeOK
  <2>2. r = 0 => ~Did(0, 3)'
    BY <2>1 DEF IInv, TypeOK, Elsewhere, Did
  <2>3. GoodPlan => GoodPlan'
    BY <2>1 DEF GoodPlan
  <2> QED BY <2>1, <2>2, <2>3 DEF IInv, PlanOfThis, Did
<1>4. ASSUME NEW r \in Ranks, Wait(r) PROVE PlanOfThis'
  BY <1>4 DEF IInv, TypeOK, Elsewhere, PlanOfThis, GoodPlan, Did, Wait, Arrive, Working
<1>5. ASSUME NEW r \in Ranks, LoadCheckpoint(r) PROVE PlanOfThis'
  BY <1>5 DEF IInv, TypeOK, Elsewhere, PlanOfThis, GoodPlan, Did, LoadCheckpoint, Arrive, Working, Unlinked
<1>6. ASSUME NEW r \in Ranks, WriteManifest(r) PROVE PlanOfThis'
  BY <1>6 DEF IInv, TypeOK, Elsewhere, PlanOfThis, GoodPlan, Did, WriteManifest, Arrive, Working
<1>7. CASE OpenPlan
  BY <1>7 DEF IInv, TypeOK, Elsewhere, PlanOfThis, GoodPlan, Did, OpenPlan, TornPlan, Working
<1>8. CASE WritePlan
  <2>1. PICK writer \in [UNION {Held([i \in Ranks |-> Weights[manifest[i]][i]], q) : q \in Ranks} -> Ranks] :
          /\ \A k \in DOMAIN writer : writer[k] \in Holders([p \in Ranks |-> Weights[manifest[p]][p]], k)
          /\ plan' = Plan(config, [p \in Ranks |-> Weights[manifest[p]][p]], writer)
    BY <1>8 DEF WritePlan
  <2>2. ASSUME NEW p \in Ranks PROVE manifest[p] = config
    <3>1. at[0] = "dump" /\ phase[0] = 3 /\ ~arrived[0]
      BY <1>8 DEF WritePlan, Working
    <3>2. at[p] = "dump" /\ Did(p, 2) /\ phase[p] < 4
      BY <3>1 DEF IInv, TypeOK, InStep, Did, Elsewhere
    <3> QED BY <3>2 DEF IInv, ManifestsOfThis
  <2>3. [p \in Ranks |-> Weights[manifest[p]][p]] = [p \in Ranks |-> Weights[config][p]]
    BY <2>2
  <2>4. GoodPlan'
    BY <2>1, <2>3, <1>8, SMTT(30) DEF GoodPlan, Plan, WritePlan
  <2> QED BY <2>4 DEF PlanOfThis
<1>9. ASSUME NEW r \in Ranks, OpenFile(r) PROVE PlanOfThis'
  BY <1>9 DEF IInv, TypeOK, Elsewhere, PlanOfThis, GoodPlan, Did, OpenFile, Working
<1>10. ASSUME NEW r \in Ranks, WriteFile(r) PROVE PlanOfThis'
  BY <1>10 DEF IInv, TypeOK, Elsewhere, PlanOfThis, GoodPlan, Did, WriteFile, Working
<1>11. ASSUME NEW r \in Ranks, FilesWritten(r) PROVE PlanOfThis'
  BY <1>11 DEF IInv, TypeOK, Elsewhere, PlanOfThis, GoodPlan, Did, FilesWritten, Arrive, Working, AllWritten
<1>12. CASE Publish
  BY <1>12 DEF IInv, TypeOK, Elsewhere, PlanOfThis, GoodPlan, Did, Publish, Arrive, Working
<1>13. ASSUME NEW r \in Ranks, PassBarrier(r) PROVE PlanOfThis'
  BY <1>13 DEF IInv, TypeOK, Elsewhere, PlanOfThis, GoodPlan, Did, PassBarrier, LetsPass, LastBarrier
<1>14. CASE Crash
  BY <1>14 DEF IInv, TypeOK, Elsewhere, PlanOfThis, GoodPlan, Did, Crash, AllOff
<1>15. CASE Reap
  BY <1>15 DEF IInv, TypeOK, Elsewhere, PlanOfThis, GoodPlan, Did, Reap, AllOff
<1>16. ASSUME NEW r \in Ranks, Fail(r) PROVE PlanOfThis'
  BY <1>16 DEF IInv, TypeOK, Elsewhere, PlanOfThis, GoodPlan, Did, Fail, Together
<1>17. CASE Rot
  BY <1>17 DEF IInv, TypeOK, Elsewhere, PlanOfThis, GoodPlan, Did, Rot, AllOff
<1>18. CASE Serve
  BY <1>18 DEF IInv, TypeOK, Elsewhere, PlanOfThis, GoodPlan, Did, Serve, vars
<1>19. CASE UNCHANGED vars
  BY <1>19 DEF IInv, TypeOK, Elsewhere, PlanOfThis, GoodPlan, Did, vars
<1> QED
  BY <1>1, <1>2, <1>3, <1>4, <1>5, <1>6, <1>7, <1>8, <1>9, <1>10, <1>11, <1>12, <1>13, <1>14, <1>15, <1>16, <1>17, <1>18, <1>19 DEF Next, Rank

\* What a rank has written stays.
LEMMA FilesStep == IInv /\ Together /\ [Next]_vars => FilesOfThis'
<1> SUFFICES ASSUME IInv, Together, [Next]_vars PROVE FilesOfThis'
  OBVIOUS
<1> USE PreshardedAssumption, RankZero DEF disk, launch
<1>1. ASSUME NEW c \in Configs, NEW v \in BOOLEAN, Launch(c, v) PROVE FilesOfThis'
  BY <1>1 DEF IInv, TypeOK, Elsewhere, FilesOfThis, Did, Launch, AllOff
<1>2. ASSUME NEW r \in Ranks, Check(r) PROVE FilesOfThis'
  BY <1>2 DEF IInv, TypeOK, Elsewhere, FilesOfThis, Did, Check
<1>3. ASSUME NEW r \in Ranks, Load(r) PROVE FilesOfThis'
  BY <1>3 DEF IInv, TypeOK, Elsewhere, FilesOfThis, Did, Load
<1>4. ASSUME NEW r \in Ranks, Wait(r) PROVE FilesOfThis'
  <2>1. /\ UNCHANGED <<file, wrote, at, phase, plan>> /\ arrived' = [arrived EXCEPT ![r] = TRUE]
        /\ at[r] = "dump" => phase[r] # 4
    BY <1>4 DEF Wait, Arrive, Working
  <2> QED BY <2>1 DEF IInv, TypeOK, FilesOfThis, Did
<1>5. ASSUME NEW r \in Ranks, LoadCheckpoint(r) PROVE FilesOfThis'
  <2>1. /\ UNCHANGED <<file, wrote, at, phase, plan>> /\ arrived' = [arrived EXCEPT ![r] = TRUE]
        /\ at[r] = "dump" => phase[r] # 4
    BY <1>5 DEF LoadCheckpoint, Arrive, Working
  <2> QED BY <2>1 DEF IInv, TypeOK, FilesOfThis, Did
<1>6. ASSUME NEW r \in Ranks, WriteManifest(r) PROVE FilesOfThis'
  <2>1. /\ UNCHANGED <<file, wrote, at, phase>> /\ Working(r, 2)
        /\ arrived' = [arrived EXCEPT ![r] = TRUE] /\ UNCHANGED plan
    BY <1>6 DEF WriteManifest, Arrive
  <2> QED BY <2>1 DEF IInv, TypeOK, FilesOfThis, Did, Working
<1>7. CASE OpenPlan
  BY <1>7 DEF IInv, TypeOK, Elsewhere, FilesOfThis, Did, InStep, OpenPlan, TornPlan, Working
<1>8. CASE WritePlan
  <2>1. /\ UNCHANGED <<file, wrote, at, phase>> /\ Working(0, 3)
        /\ arrived' = [arrived EXCEPT ![0] = TRUE]
    BY <1>8 DEF WritePlan, Arrive
  <2>2. \A p \in Ranks : at[p] = "dump" => phase[p] < 4
    BY <2>1 DEF IInv, TypeOK, InStep, Did, Working
  <2>3. \A p \in Ranks : at'[p] = "dump" => ~(phase'[p] >= 4) /\ ~Did(p, 4)'
    BY <2>1, <2>2 DEF IInv, TypeOK, Did
  <2>4. \A p \in Ranks : at'[p] \in {"check", "dump"} /\ phase'[p] < 4 => wrote'[p] = {}
    BY <2>1 DEF IInv, FilesOfThis
  <2> QED BY <2>3, <2>4 DEF FilesOfThis
<1>9. ASSUME NEW r \in Ranks, OpenFile(r) PROVE FilesOfThis'
  <2>0. at[r] = "dump" /\ phase[r] >= 4
    BY <1>9 DEF OpenFile, Working
  <2>1. GoodPlan /\ \A q \in Ranks : Mine(plan, q) \subseteq Files /\ \A f \in Mine(plan, q) : f.writer = q
    BY <2>0, DumpGoesOn, GoodFiles
  <2> QED BY <1>9, <2>1 DEF IInv, TypeOK, FilesOfThis, Did, OpenFile, Working
<1>10. ASSUME NEW r \in Ranks, WriteFile(r) PROVE FilesOfThis'
  <2>0. at[r] = "dump" /\ phase[r] >= 4
    BY <1>10 DEF WriteFile, Working
  <2>1. GoodPlan /\ \A q \in Ranks : Mine(plan, q) \subseteq Files /\ \A f \in Mine(plan, q) : f.writer = q
    BY <2>0, DumpGoesOn, GoodFiles
  <2> QED BY <1>10, <2>1 DEF IInv, TypeOK, FilesOfThis, Did, WriteFile, Working
<1>11. ASSUME NEW r \in Ranks, FilesWritten(r) PROVE FilesOfThis'
  <2>1. /\ UNCHANGED <<file, plan, wrote, phase>> /\ phase[r] = 4 /\ at[r] = "dump"
        /\ at'[r] = "dump" => wrote[r] = Mine(plan, r)
        /\ \A q \in Ranks : q # r => at'[q] = at[q] /\ arrived'[q] = arrived[q]
    BY <1>11 DEF IInv, TypeOK, FilesWritten, Arrive, Working, AllWritten
  <2>2. \A q \in Ranks : q # r => Did(q, 4)' = Did(q, 4)
    BY <2>1 DEF Did
  <2>3. at'[r] # "check"
    BY <1>11 DEF IInv, TypeOK, FilesWritten, Working
  <2> QED BY <2>1, <2>2, <2>3 DEF IInv, FilesOfThis
<1>12. CASE Publish
  <2>1. /\ UNCHANGED <<file, wrote, at, phase>> /\ Working(0, 5)
        /\ arrived' = [arrived EXCEPT ![0] = TRUE] /\ UNCHANGED plan
    BY <1>12 DEF Publish, Arrive
  <2>2. \A p \in Ranks : Did(p, 4)' = Did(p, 4)
    BY <2>1 DEF IInv, TypeOK, Did, Working
  <2> QED BY <2>1, <2>2 DEF IInv, FilesOfThis
<1>13. ASSUME NEW r \in Ranks, PassBarrier(r) PROVE FilesOfThis'
  BY <1>13 DEF IInv, TypeOK, Elsewhere, FilesOfThis, Did, PassBarrier, LetsPass, LastBarrier
<1>14. CASE Crash
  BY <1>14 DEF IInv, TypeOK, Elsewhere, FilesOfThis, Did, Crash, AllOff
<1>15. CASE Reap
  BY <1>15 DEF IInv, TypeOK, Elsewhere, FilesOfThis, Did, Reap, AllOff
<1>16. ASSUME NEW r \in Ranks, Fail(r) PROVE FilesOfThis'
  BY <1>16 DEF IInv, TypeOK, Elsewhere, FilesOfThis, Did, Fail, Together
<1>17. CASE Rot
  BY <1>17 DEF IInv, TypeOK, Elsewhere, FilesOfThis, Did, Rot, AllOff
<1>18. CASE Serve
  BY <1>18 DEF IInv, TypeOK, Elsewhere, FilesOfThis, Did, Serve, vars
<1>19. CASE UNCHANGED vars
  BY <1>19 DEF IInv, TypeOK, Elsewhere, FilesOfThis, Did, vars
<1> QED
  BY <1>1, <1>2, <1>3, <1>4, <1>5, <1>6, <1>7, <1>8, <1>9, <1>10, <1>11, <1>12, <1>13, <1>14, <1>15, <1>16, <1>17, <1>18, <1>19 DEF Next, Rank

\* A rank that writes its files does so without READY.
LEMMA NotReady ==
  ASSUME IInv, NEW r \in Ranks, Working(r, 4)
  PROVE  ~ready
<1>1. at[0] = "dump" /\ Did(0, 3) /\ ~Did(0, 5)
  BY RankZero DEF IInv, TypeOK, InStep, Did, Elsewhere, Working
<1> QED BY <1>1, RankZero DEF IInv, TypeOK, Hidden, Did

\* Nothing that leaves the directory alone can break the promise.
LEMMA PublishedFrame ==
  ASSUME Published, UNCHANGED <<plan, file>>
  PROVE  Published'
BY DEF Published

LEMMA ReadyFrame ==
  ASSUME ReadyMeansWhole, ready' => ready, UNCHANGED <<plan, file>>
  PROVE  ReadyMeansWhole'
BY PublishedFrame DEF ReadyMeansWhole

\* READY stands for a whole dump.
LEMMA ReadyStep == IInv /\ Together /\ [Next]_vars => ReadyMeansWhole'
<1> SUFFICES ASSUME IInv, Together, [Next]_vars PROVE ReadyMeansWhole'
  OBVIOUS
<1> USE PreshardedAssumption, RankZero DEF disk, launch
<1>1. ASSUME NEW c \in Configs, NEW v \in BOOLEAN, Launch(c, v) PROVE ReadyMeansWhole'
  BY <1>1, ReadyFrame DEF IInv, Launch, AllOff
<1>2. ASSUME NEW r \in Ranks, Check(r) PROVE ReadyMeansWhole'
  BY <1>2, ReadyFrame DEF IInv, Check
<1>3. ASSUME NEW r \in Ranks, Load(r) PROVE ReadyMeansWhole'
  BY <1>3, ReadyFrame DEF IInv, Load
<1>4. ASSUME NEW r \in Ranks, Wait(r) PROVE ReadyMeansWhole'
  BY <1>4, ReadyFrame DEF IInv, Wait, Arrive, Working
<1>5. ASSUME NEW r \in Ranks, LoadCheckpoint(r) PROVE ReadyMeansWhole'
  BY <1>5, ReadyFrame DEF IInv, LoadCheckpoint, Unlinked
<1>6. ASSUME NEW r \in Ranks, WriteManifest(r) PROVE ReadyMeansWhole'
  BY <1>6, ReadyFrame DEF IInv, WriteManifest, Arrive, Working
<1>7. CASE OpenPlan
  BY <1>7 DEF IInv, TypeOK, Hidden, Did, ReadyMeansWhole, OpenPlan, Working
<1>8. CASE WritePlan
  BY <1>8 DEF IInv, TypeOK, Hidden, Did, ReadyMeansWhole, WritePlan, Working
<1>9. ASSUME NEW r \in Ranks, OpenFile(r) PROVE ReadyMeansWhole'
  BY <1>9, NotReady DEF OpenFile, ReadyMeansWhole
<1>10. ASSUME NEW r \in Ranks, WriteFile(r) PROVE ReadyMeansWhole'
  BY <1>10, NotReady DEF WriteFile, ReadyMeansWhole
<1>11. ASSUME NEW r \in Ranks, FilesWritten(r) PROVE ReadyMeansWhole'
  BY <1>11, ReadyFrame DEF IInv, FilesWritten, Arrive, Working, AllWritten
<1>12. CASE Publish
  <2> USE <1>12
  <2>1. GoodPlan
    BY DEF IInv, TypeOK, PlanOfThis, Did, Publish, Working
  <2>2. \A q \in Ranks : at[q] = "dump" /\ Did(q, 4)
    BY DEF IInv, TypeOK, InStep, Did, Elsewhere, Publish, Working
  <2>3. ASSUME NEW q \in Ranks, NEW f \in Mine(plan, q) PROVE file[f] = Contents(plan, f)
    <3>1. phase[q] \in Nat BY DEF IInv, TypeOK
    <3>2. phase[q] >= 4 BY <2>2, <3>1 DEF Did
    <3>3. wrote[q] = Mine(plan, q) BY <2>2 DEF IInv, FilesOfThis
    <3> QED BY <2>2, <3>2, <3>3 DEF IInv, FilesOfThis
  <2>4. ASSUME NEW q \in Ranks, NEW k \in Held(plan.held, q)
        PROVE  FileOf(plan, k) \in Files /\ \E e \in file[FileOf(plan, k)] : e.key = k
    <3>1. /\ plan.writer[k] \in Ranks /\ FileOf(plan, k) \in Mine(plan, plan.writer[k])
          /\ Entry(k, k) \in Contents(plan, FileOf(plan, k))
      BY <2>1, <2>4, GoodFiles
    <3>2. Entry(k, k) \in file[FileOf(plan, k)] /\ FileOf(plan, k) \in Files
      BY <3>1, <2>1, <2>3, GoodFiles
    <3> QED BY <3>2 DEF Entry
  <2>5. Published
    BY <2>1, <2>4 DEF GoodPlan, Published, IInv, TypeOK
  <2> QED BY <2>5, PublishedFrame DEF ReadyMeansWhole, Publish
<1>13. ASSUME NEW r \in Ranks, PassBarrier(r) PROVE ReadyMeansWhole'
  BY <1>13, ReadyFrame DEF IInv, PassBarrier, LetsPass, LastBarrier
<1>14. CASE Crash
  BY <1>14, ReadyFrame DEF IInv, Crash, AllOff
<1>15. CASE Reap
  BY <1>15, ReadyFrame DEF IInv, Reap, AllOff
<1>16. ASSUME NEW r \in Ranks, Fail(r) PROVE ReadyMeansWhole'
  BY <1>16, ReadyFrame DEF IInv, Fail, Together
<1>17. CASE Rot
  <2>1. PICK f \in Files : \E e \in file[f] :
          file' = [file EXCEPT ![f] = (@ \ {e}) \cup {Entry(e.key, Bad)}]
    BY <1>17 DEF Rot
  <2>2. PICK e \in file[f] : file' = [file EXCEPT ![f] = (@ \ {e}) \cup {Entry(e.key, Bad)}]
    BY <2>1
  <2>3. \A g \in Files : \A k : (\E d \in file[g] : d.key = k) => \E d \in file'[g] : d.key = k
    <3> SUFFICES ASSUME NEW g \in Files, NEW k, NEW d \in file[g], d.key = k
                 PROVE  \E x \in file'[g] : x.key = k
      OBVIOUS
    <3>1. DOMAIN file = Files BY DEF IInv, TypeOK
    <3>2. CASE g # f BY <2>2, <3>1, <3>2
    <3>3. CASE g = f /\ d # e BY <2>2, <3>1, <3>3
    <3>4. CASE g = f /\ d = e
      <4>1. Entry(e.key, Bad) \in file'[g] BY <2>2, <3>1, <3>4
      <4> QED BY <4>1, <3>4 DEF Entry
    <3> QED BY <3>2, <3>3, <3>4
  <2>4. \A g : g \notin Files => file'[g] = file[g]
    BY <2>2 DEF IInv, TypeOK
  <2> QED BY <2>3, <2>4, <1>17 DEF IInv, ReadyMeansWhole, Published, Rot
<1>18. CASE Serve
  BY <1>18, ReadyFrame DEF IInv, Serve, vars
<1>19. CASE UNCHANGED vars
  BY <1>19, ReadyFrame DEF IInv, vars
<1> QED
  BY <1>1, <1>2, <1>3, <1>4, <1>5, <1>6, <1>7, <1>8, <1>9, <1>10, <1>11, <1>12, <1>13, <1>14, <1>15, <1>16, <1>17, <1>18, <1>19 DEF Next, Rank

LEMMA InvStep == IInv /\ Together /\ [Next]_vars => IInv'
BY TypeStep, ElsewhereStep, InStepStep, PathStep, HiddenStep, ManifestStep, PlanStep,
   FilesStep, ReadyStep DEF IInv

LEMMA Always == ASSUME Together PROVE Spec => []IInv
BY InvStep, InitInv, PTL DEF Spec

-----------------------------------------------------------------------------
\* Whatever launches are killed, and wherever: once READY is there, the plan is
\* a whole plan and every tensor of every rank is in the file it names.
\* (PreshardedModelLoader._publish_ready after the last write, _unlink_ready
\* before the first.)
THEOREM WholeDump == ASSUME Together PROVE Spec => []ReadyMeansWhole
<1>1. IInv => ReadyMeansWhole BY DEF IInv
<1> QED BY <1>1, Always, PTL

\* While a rank loads from the directory, none writes to it: all found the same
\* READY and the same plan.  (load_model, each rank deciding for itself.)
THEOREM SamePath == ASSUME Together PROVE Spec => []OnePath
<1>1. IInv => OnePath
  BY DEF IInv, Path, OnePath
<1> QED BY <1>1, Always, PTL

-----------------------------------------------------------------------------
\* What the files hold is what their tensors are called after, until damaged.
Honest ==
  faults.rot = 0 => \A f \in Files : \A e \in file[f] : e.val = e.key

\* A rank of the dump has the checkpoint's weights.
Loaded ==
  \A r \in Ranks : at[r] = "dump" /\ Did(r, 1) => model[r] = Weights[config][r]

LEMMA HonestStep == IInv /\ Honest /\ [Next]_vars => Honest'
<1> SUFFICES ASSUME IInv, Honest, [Next]_vars PROVE Honest'
  OBVIOUS
<1> USE DEF disk, launch
<1>1. ASSUME UNCHANGED file, faults'.rot = faults.rot PROVE Honest'
  BY <1>1 DEF Honest
<1>2. ASSUME NEW r \in Ranks, OpenFile(r) PROVE Honest'
  BY <1>2 DEF Honest, OpenFile, IInv, TypeOK, TornFile, Entry
<1>3. ASSUME NEW r \in Ranks, WriteFile(r) PROVE Honest'
  BY <1>3 DEF Honest, WriteFile, IInv, TypeOK, Contents, Entry
<1>4. CASE Rot
  BY <1>4 DEF Rot, Honest, IInv, TypeOK
<1>5. ASSUME NEW r \in Ranks, Rank(r), ~WriteFile(r) PROVE Honest'
  BY <1>1, <1>5 DEF Rank, Check, Load, Wait, LoadCheckpoint, WriteManifest, FilesWritten,
     PassBarrier
<1>6. CASE (\E c \in Configs, v \in BOOLEAN : Launch(c, v)) \/ OpenPlan \/ WritePlan
           \/ Publish \/ Crash \/ Reap \/ Serve \/ (\E r \in Ranks : Fail(r)) \/ UNCHANGED vars
  BY <1>1, <1>6 DEF Launch, OpenPlan, WritePlan, Publish, Crash, Reap, Serve, Fail, vars, IInv, TypeOK
<1> QED BY <1>2, <1>3, <1>4, <1>5, <1>6 DEF Next

LEMMA LoadedFrame ==
  ASSUME Loaded, UNCHANGED <<model, config>>,
         \A r \in Ranks : at'[r] = "dump" /\ Did(r, 1)' => at[r] = "dump" /\ Did(r, 1)
  PROVE  Loaded'
BY DEF Loaded

LEMMA LoadedStep == IInv /\ Loaded /\ [Next]_vars => Loaded'
<1> SUFFICES ASSUME IInv, Loaded, [Next]_vars PROVE Loaded'
  OBVIOUS
<1>0. /\ at \in [Ranks -> {"off", "check", "load", "dump", "done", "dead"}]
      /\ phase \in [Ranks -> 0..6] /\ arrived \in [Ranks -> BOOLEAN]
      /\ DOMAIN model = Ranks
      /\ \A r \in Ranks : Elsewhere(r)
  BY DEF IInv, TypeOK
<1>1. ASSUME NEW c \in Configs, NEW v \in BOOLEAN, Launch(c, v) PROVE Loaded'
  BY <1>1 DEF Launch, Loaded
<1>2. ASSUME NEW r \in Ranks, Check(r) PROVE Loaded'
  <2>1. ~Did(r, 1)'
    BY <1>0, <1>2 DEF Check, Elsewhere, Did
  <2>2. /\ UNCHANGED <<model, config, phase, arrived>>
        /\ \A q \in Ranks : q # r => at'[q] = at[q]
    BY <1>0, <1>2 DEF Check, launch
  <2> QED BY <2>1, <2>2, LoadedFrame DEF Did
<1>3. ASSUME NEW r \in Ranks, Load(r) PROVE Loaded'
  BY <1>0, <1>3 DEF Load, Loaded, Did, disk, launch
<1>4. ASSUME NEW r \in Ranks, LoadCheckpoint(r) PROVE Loaded'
  <2>1. /\ UNCHANGED <<at, phase, config>> /\ model'[r] = Weights[config][r]
        /\ \A q \in Ranks : q # r => model'[q] = model[q] /\ arrived'[q] = arrived[q]
    BY <1>0, <1>4 DEF LoadCheckpoint, Arrive, launch
  <2> QED BY <2>1 DEF Loaded, Did
<1>5. ASSUME NEW r \in Ranks, Wait(r) PROVE Loaded'
  <2>1. /\ UNCHANGED <<at, phase, model, config>> /\ phase[r] # 1
        /\ \A q \in Ranks : q # r => arrived'[q] = arrived[q]
    BY <1>0, <1>5 DEF Wait, Arrive, Working, launch
  <2> QED BY <1>0, <2>1, LoadedFrame DEF Did
<1>6. ASSUME NEW r \in Ranks, WriteManifest(r) PROVE Loaded'
  <2>1. /\ UNCHANGED <<at, phase, model, config>> /\ phase[r] # 1
        /\ \A q \in Ranks : q # r => arrived'[q] = arrived[q]
    BY <1>0, <1>6 DEF WriteManifest, Arrive, Working, launch
  <2> QED BY <1>0, <2>1, LoadedFrame DEF Did
<1>7. ASSUME NEW r \in Ranks, WriteFile(r) \/ OpenFile(r) PROVE Loaded'
  BY <1>7, LoadedFrame DEF WriteFile, OpenFile, Did, launch
<1>8. ASSUME NEW r \in Ranks, FilesWritten(r) PROVE Loaded'
  <2>1. /\ UNCHANGED <<phase, model, config>> /\ phase[r] = 4 /\ at[r] = "dump"
        /\ \A q \in Ranks : q # r => at'[q] = at[q] /\ arrived'[q] = arrived[q]
    BY <1>0, <1>8 DEF FilesWritten, Arrive, Working, launch
  <2> QED BY <1>0, <2>1, LoadedFrame DEF Did
<1>9. ASSUME NEW r \in Ranks, PassBarrier(r) PROVE Loaded'
  <2>1. /\ UNCHANGED <<model, config>> /\ at[r] = "dump" /\ arrived[r]
        /\ phase'[r] = phase[r] + 1 /\ ~arrived'[r]
        /\ \A q \in Ranks : q # r =>
             at'[q] = at[q] /\ arrived'[q] = arrived[q] /\ phase'[q] = phase[q]
    BY <1>0, <1>9 DEF PassBarrier, launch
  <2>2. Did(r, 1)' => Did(r, 1)
    BY <1>0, <2>1 DEF Did
  <2> QED BY <2>1, <2>2, LoadedFrame DEF Did
<1>10. ASSUME NEW r \in Ranks, Fail(r) PROVE Loaded'
  BY <1>0, <1>10, LoadedFrame DEF Fail, Did, launch
<1>11. CASE OpenPlan
  BY <1>0, <1>11, RankZero, LoadedFrame DEF OpenPlan, Did, launch
<1>12. CASE WritePlan \/ Publish
  <2>1. /\ UNCHANGED <<at, phase, model, config>> /\ phase[0] # 1
        /\ \A q \in Ranks : q # 0 => arrived'[q] = arrived[q]
    BY <1>0, <1>12 DEF WritePlan, Publish, Arrive, Working, launch
  <2> QED BY <1>0, <2>1, RankZero, LoadedFrame DEF Did
<1>13. CASE Crash \/ Reap \/ Rot \/ Serve \/ UNCHANGED vars
  BY <1>13, LoadedFrame DEF Crash, Reap, Rot, Serve, AllOff, Did, vars, launch
<1> QED
  BY <1>1, <1>2, <1>3, <1>4, <1>5, <1>6, <1>7, <1>8, <1>9, <1>10, <1>11, <1>12, <1>13
  DEF Next, Rank

\* Loading from a trusted directory gives the rank its own weights.
LEMMA LoadGives ==
  ASSUME IInv, Honest, NEW r \in Ranks, Load(r), at'[r] = "done", verify \/ faults.rot = 0
  PROVE  model'[r] = Weights[config][r]
<1>1. Usable /\ Published
  BY DEF IInv, Path, Load, ReadyMeansWhole, Usable
<1>2. plan.held[r] = Weights[config][r]
  BY <1>1 DEF Published, Usable
<1>3. model'[r] = [n \in DOMAIN plan.held[r] |-> (CHOOSE e \in Stored(plan.held[r][n]) : TRUE).val]
  BY DEF Load, Applied, IInv, TypeOK
<1>4. ASSUME NEW k \in Held(plan.held, r), NEW e \in Stored(k) PROVE e.val = k
  <2>1. CASE verify
    BY <1>4, <2>1 DEF Load, Verified, Stored, IInv, TypeOK
  <2>2. CASE faults.rot = 0
    <3>1. FileOf(plan, k) \in Files
      BY <1>4, <1>1 DEF Published
    <3> QED BY <2>2, <3>1 DEF Honest, Stored
  <2> QED BY <2>1, <2>2
<1>5. ASSUME NEW n \in DOMAIN plan.held[r]
      PROVE  (CHOOSE e \in Stored(plan.held[r][n]) : TRUE).val = plan.held[r][n]
  <2>1. plan.held[r][n] \in Held(plan.held, r) BY DEF Held
  <2>2. \E e \in Stored(plan.held[r][n]) : TRUE
    BY <1>1, <2>1 DEF Published, Stored
  <2> QED BY <2>1, <2>2, <1>4
<1>6. Weights[config][r] \in [DOMAIN Weights[config][r] -> Keys]
  BY WeightsAssumption DEF IInv, TypeOK
<1> QED BY <1>2, <1>3, <1>5, <1>6

LEMMA ServesStep ==
  ASSUME IInv, Honest, Loaded, ServesItsWeights, Together, [Next]_vars
  PROVE  ServesItsWeights'
<1> USE RankZero DEF disk, launch
<1>1. ASSUME UNCHANGED <<model, config, verify>>, faults'.rot = faults.rot,
             \A r \in Ranks : at'[r] = "done" => at[r] = "done"
      PROVE  ServesItsWeights'
  BY <1>1 DEF ServesItsWeights
<1>2. ASSUME NEW r \in Ranks, Load(r) PROVE ServesItsWeights'
  <2>1. /\ UNCHANGED <<config, verify, faults>>
        /\ \A q \in Ranks : q # r => at'[q] = at[q] /\ model'[q] = model[q]
    BY <1>2 DEF Load, IInv, TypeOK
  <2> QED BY <2>1, <1>2, LoadGives DEF ServesItsWeights
<1>3. ASSUME NEW r \in Ranks, LoadCheckpoint(r) PROVE ServesItsWeights'
  <2>1. /\ UNCHANGED <<config, verify, faults, at>> /\ at[r] # "done"
        /\ \A q \in Ranks : q # r => model'[q] = model[q]
    BY <1>3 DEF LoadCheckpoint, Working, IInv, TypeOK
  <2> QED BY <2>1 DEF ServesItsWeights
<1>4. ASSUME NEW r \in Ranks, PassBarrier(r) PROVE ServesItsWeights'
  <2>1. /\ UNCHANGED <<config, verify, faults, model>> /\ at[r] = "dump"
        /\ at'[r] = "done" => Did(r, 1)
        /\ \A q \in Ranks : q # r => at'[q] = at[q]
    BY <1>4 DEF PassBarrier, LastBarrier, Did, IInv, TypeOK
  <2> QED BY <2>1 DEF ServesItsWeights, Loaded
<1>5. ASSUME NEW c \in Configs, NEW v \in BOOLEAN, Launch(c, v) PROVE ServesItsWeights'
  BY <1>5 DEF Launch, ServesItsWeights
<1>6. CASE Crash \/ Reap \/ Rot
  BY <1>6 DEF Crash, Reap, Rot, AllOff, ServesItsWeights
<1>7. ASSUME NEW r \in Ranks,
             Check(r) \/ Wait(r) \/ WriteManifest(r) \/ WriteFile(r) \/ FilesWritten(r)
             \/ OpenFile(r) \/ Fail(r)
      PROVE  ServesItsWeights'
  BY <1>1, <1>7 DEF Check, Wait, WriteManifest, WriteFile, FilesWritten, OpenFile, Fail, IInv, TypeOK
<1>8. CASE OpenPlan \/ WritePlan \/ Publish \/ Serve \/ UNCHANGED vars
  BY <1>1, <1>8 DEF OpenPlan, WritePlan, Publish, Serve, vars, IInv, TypeOK
<1> QED BY <1>2, <1>3, <1>4, <1>5, <1>6, <1>7, <1>8 DEF Next, Rank

\* However many launches were killed before it, under whatever configs, a rank
\* that serves has its own weights under its own launch's config, unless a
\* tensor was damaged on disk and the launch does not verify.  (load_model,
\* _load_from_presharded, _verify_rank_checksum.)
THEOREM OwnWeights == ASSUME Together PROVE Spec => []ServesItsWeights
<1> DEFINE All == IInv /\ Honest /\ Loaded /\ ServesItsWeights
<1>1. Init => All
  BY InitInv, RankZero DEF Init, Honest, Loaded, ServesItsWeights, AllOff
<1>2. All /\ [Next]_vars => All'
  BY Together, InvStep, HonestStep, LoadedStep, ServesStep
<1>3. All => ServesItsWeights
  OBVIOUS
<1> HIDE DEF All
<1> QED BY <1>1, <1>2, <1>3, PTL DEF Spec
=============================================================================
