----------------------------- MODULE Presharded -----------------------------
(***************************************************************************)
(* PreshardedModelLoader: the ranks of a launch load the checkpoint once,  *)
(* dump what they made of it into a directory they share, and later        *)
(* launches load the dump.                                                 *)
(*                                                                         *)
(* The ranks agree by barriers and by files: a manifest per rank, the plan *)
(* rank 0 makes of them (checksum.json), the tensor files, and last the    *)
(* file READY, which alone makes a launch trust the directory.  A launch   *)
(* may be killed between any two steps and leaves the directory as it is.  *)
(*                                                                         *)
(* A tensor is named by its content, which its checksum stands for.        *)
(***************************************************************************)
EXTENDS Naturals, FiniteSets

CONSTANTS
  LastRank,  \* world_size - 1
  Configs,   \* shard configs whose subfolder has the same name
  Weights,   \* Weights[c][r][n]: content of rank r's tensor n under config c
  MaxCrash,  \* bound: launches killed
  FailAt,    \* where a rank may fail alone
  MaxFail,   \* bound: ranks that fail alone
  MaxRot     \* bound: tensors damaged on disk

Ranks == 0..LastRank
NoConfig == "none"

Keys == UNION {{Weights[c][r][n] : n \in DOMAIN Weights[c][r]} : c \in Configs, r \in Ranks}

ASSUME PreshardedAssumption ==
  /\ LastRank \in Nat /\ MaxCrash \in Nat /\ MaxFail \in Nat /\ MaxRot \in Nat
  /\ Configs # {} /\ NoConfig \notin Configs
  /\ FailAt \subseteq {"check", "load", "dump", "done"}

ASSUME WeightsAssumption ==
  \A c \in Configs, r \in Ranks : Weights[c][r] \in [DOMAIN Weights[c][r] -> Keys]

VARIABLES
  ready,     \* READY exists
  plan,      \* checksum.json
  file,      \* file[f]: the entries of tensor file f
  manifest,  \* manifest[r]: the config under which r wrote its manifest
  config,    \* shard_config of this launch
  verify,    \* verify_on_load of this launch
  at,        \* at[r]: what rank r is doing
  phase,     \* phase[r]: barriers of the dump r has passed
  arrived,   \* r waits at the next barrier
  wrote,     \* wrote[r]: tensor files r has written
  model,     \* model[r]: r's tensors as it will serve them
  faults     \* launches killed, ranks failed, tensors damaged so far

vars == <<ready, plan, file, manifest, config, verify, at, phase, arrived, wrote,
          model, faults>>
disk == <<ready, plan, file, manifest>>
launch == <<config, verify>>

Bad == "damaged"
Torn == "torn"

\* A tensor file belongs to the ranks that hold its tensors; one of them wrote it.
Files == {f \in [by : SUBSET Ranks, writer : Ranks] : f.writer \in f.by}
Entry(key, val) == [key |-> key, val |-> val]
TornFile == {Entry(Torn, Torn)}

\* The plan: whose config it is, what each rank holds, who writes each tensor.
Plan(c, held, writer) == [state |-> "whole", config |-> c, held |-> held, writer |-> writer]
NoPlan == [state |-> "none"]
TornPlan == [state |-> "torn"]

Held(held, r) == {held[r][n] : n \in DOMAIN held[r]}
Holders(held, k) == {r \in Ranks : k \in Held(held, r)}
FileOf(p, k) == [by |-> Holders(p.held, k), writer |-> p.writer[k]]
Mine(p, r) == {FileOf(p, k) : k \in {j \in DOMAIN p.writer : p.writer[j] = r}}

AllOff == [r \in Ranks |-> "off"]
AllDone == \A r \in Ranks : at[r] = "done"

-----------------------------------------------------------------------------
(* Pieces of the code.  Faulty... is a plausible mistake in the definition  *)
(* below it; nothing else refers to it.                                    *)

\* Whether a launch trusts the directory.
FaultyUsable == ready /\ plan.state = "whole"
Usable == ready /\ plan.state = "whole" /\ plan.config = config

\* READY after rank r entered the dump: rank 0 takes the old one away.
Unlinked(r) == IF r = 0 THEN FALSE ELSE ready

\* r may pass its next barrier, p, as far as q is concerned.  A barrier that fails
\* because q is gone raises RuntimeError, which _world_barrier swallows.
FaultyLetsPass(q, p) == phase[q] >= p
FaultyNoBarrier(q, p) == TRUE
LetsPass(q, p) ==
  \/ at[q] = "dead"
  \/ at[q] \in {"dump", "done"} /\ (phase[q] > p \/ (phase[q] = p /\ arrived[q]))

\* _verify_rank_checksum: the entries r read against the plan's checksum of r.
FaultyVerified(read, r) == TRUE
Verified(read, r) == \A e \in read : e.val = e.key

\* What the files hold of tensor k, and r's tensors made of it.
Stored(k) == {e \in file[FileOf(plan, k)] : e.key = k}
Applied(r) ==
  [n \in DOMAIN plan.held[r] |-> (CHOOSE e \in Stored(plan.held[r][n]) : TRUE).val]

\* What save_file puts into tensor file f.
Contents(p, f) == {Entry(k, k) : k \in {j \in DOMAIN p.writer : FileOf(p, j) = f}}

\* Whether r has written its files.
AllWritten(r) == Mine(plan, r) = wrote[r]

\* The barrier that ends the dump.
FaultyLastBarrier == 6
LastBarrier == 5

-----------------------------------------------------------------------------
(* A launch.                                                               *)

Launch(c, v) ==
  /\ at = AllOff
  /\ config' = c /\ verify' = v
  /\ at' = [r \in Ranks |-> "check"]
  /\ phase' = [r \in Ranks |-> 0]
  /\ arrived' = [r \in Ranks |-> FALSE]
  /\ wrote' = [r \in Ranks |-> {}]
  /\ model' = [r \in Ranks |-> <<>>]
  /\ UNCHANGED <<disk, faults>>

\* load_model: use the dump, or make one.
Check(r) ==
  /\ at[r] = "check"
  /\ at' = [at EXCEPT ![r] = IF Usable THEN "load" ELSE "dump"]
  /\ UNCHANGED <<disk, launch, phase, arrived, wrote, model, faults>>

\* _load_from_presharded: r reads its tensors from their files; a file without
\* them, or a checksum that differs, ends the rank.
Load(r) ==
  LET keys == Held(plan.held, r) IN
  /\ at[r] = "load"
  /\ IF /\ \A k \in keys : Stored(k) # {}
        /\ verify => Verified(UNION {Stored(k) : k \in keys}, r)
     THEN at' = [at EXCEPT ![r] = "done"] /\ model' = [model EXCEPT ![r] = Applied(r)]
     ELSE at' = [at EXCEPT ![r] = "dead"] /\ UNCHANGED model
  /\ UNCHANGED <<disk, launch, phase, arrived, wrote, faults>>

-----------------------------------------------------------------------------
(* The dump, between its six barriers.                                     *)

Working(r, p) == at[r] = "dump" /\ phase[r] = p /\ ~arrived[r]
Arrive(r) == arrived' = [arrived EXCEPT ![r] = TRUE]

\* A rank with nothing to do before its next barrier: all of them once the
\* directory is there, and those that wait for rank 0.
Wait(r) ==
  /\ Working(r, 0) \/ (r # 0 /\ (Working(r, 3) \/ Working(r, 5)))
  /\ Arrive(r)
  /\ UNCHANGED <<disk, launch, at, phase, wrote, model, faults>>

\* _first_time_load_and_dump: the checkpoint is loaded and processed.
LoadCheckpoint(r) ==
  /\ Working(r, 1)
  /\ model' = [model EXCEPT ![r] = Weights[config][r]]
  /\ ready' = Unlinked(r)
  /\ Arrive(r)
  /\ UNCHANGED <<plan, file, manifest, launch, at, phase, wrote, faults>>

WriteManifest(r) ==
  /\ Working(r, 2)
  /\ manifest' = [manifest EXCEPT ![r] = config]
  /\ Arrive(r)
  /\ UNCHANGED <<ready, plan, file, launch, at, phase, wrote, model, faults>>

\* _build_dump_plan reads the manifests, or fails for want of one.  Opening
\* checksum.json truncates it.
OpenPlan ==
  /\ Working(0, 3)
  /\ IF \A r \in Ranks : manifest[r] # NoConfig
     THEN plan' = TornPlan /\ UNCHANGED at
     ELSE at' = [at EXCEPT ![0] = "dead"] /\ UNCHANGED plan
  /\ UNCHANGED <<ready, file, manifest, launch, phase, arrived, wrote, model, faults>>

\* The plan: of the ranks that hold a tensor, the least loaded writes it.
WritePlan ==
  LET held == [r \in Ranks |-> Weights[manifest[r]][r]]
      keys == UNION {Held(held, r) : r \in Ranks}
  IN
  /\ Working(0, 3) /\ plan = TornPlan /\ \A r \in Ranks : manifest[r] # NoConfig
  /\ \E writer \in [keys -> Ranks] :
       /\ \A k \in keys : writer[k] \in Holders(held, k)
       /\ plan' = Plan(config, held, writer)
  /\ Arrive(0)
  /\ UNCHANGED <<ready, file, manifest, launch, at, phase, wrote, model, faults>>

\* _dump_files_for_rank: r opens one of its files, and completes it.
OpenFile(r) ==
  /\ Working(r, 4) /\ plan.state = "whole"
  /\ \E f \in Mine(plan, r) \ wrote[r] : file' = [file EXCEPT ![f] = TornFile]
  /\ UNCHANGED <<ready, plan, manifest, launch, at, phase, arrived, wrote, model, faults>>

WriteFile(r) ==
  /\ Working(r, 4) /\ plan.state = "whole"
  /\ \E f \in Mine(plan, r) \ wrote[r] :
       /\ file[f] = TornFile
       /\ file' = [file EXCEPT ![f] = Contents(plan, f)]
       /\ wrote' = [wrote EXCEPT ![r] = @ \cup {f}]
  /\ UNCHANGED <<ready, plan, manifest, launch, at, phase, arrived, model, faults>>

FilesWritten(r) ==
  /\ Working(r, 4)
  /\ IF plan.state = "whole"
     THEN /\ AllWritten(r)
          /\ Arrive(r) /\ UNCHANGED at
     ELSE at' = [at EXCEPT ![r] = "dead"] /\ UNCHANGED arrived
  /\ UNCHANGED <<disk, launch, phase, wrote, model, faults>>

\* Rank 0 drops the manifests and creates READY.
Publish ==
  /\ Working(0, 5)
  /\ manifest' = [r \in Ranks |-> NoConfig]
  /\ ready' = TRUE
  /\ Arrive(0)
  /\ UNCHANGED <<plan, file, launch, at, phase, wrote, model, faults>>

\* _world_barrier returns.
PassBarrier(r) ==
  /\ at[r] = "dump" /\ arrived[r]
  /\ \A q \in Ranks : LetsPass(q, phase[r])
  /\ phase' = [phase EXCEPT ![r] = @ + 1]
  /\ arrived' = [arrived EXCEPT ![r] = FALSE]
  /\ at' = [at EXCEPT ![r] = IF phase[r] = LastBarrier THEN "done" ELSE @]
  /\ UNCHANGED <<disk, launch, wrote, model, faults>>

-----------------------------------------------------------------------------
(* What goes wrong.                                                        *)

\* The launch is killed, or stopped.
Crash ==
  /\ at # AllOff /\ faults.crash < MaxCrash
  /\ at' = AllOff
  /\ faults' = [faults EXCEPT !.crash = @ + 1]
  /\ UNCHANGED <<disk, launch, phase, arrived, wrote, model>>

\* The launcher ends what a dead rank leaves.
Reap ==
  /\ \E r \in Ranks : at[r] = "dead"
  /\ at' = AllOff
  /\ UNCHANGED <<disk, launch, phase, arrived, wrote, model, faults>>

\* A rank fails alone: no memory, no space, no file.
Fail(r) ==
  /\ at[r] \in FailAt /\ faults.fail < MaxFail
  /\ at' = [at EXCEPT ![r] = "dead"]
  /\ faults' = [faults EXCEPT !.fail = @ + 1]
  /\ UNCHANGED <<disk, launch, phase, arrived, wrote, model>>

\* A tensor is damaged on disk, its file still in form.
Rot ==
  /\ at = AllOff /\ faults.rot < MaxRot
  /\ \E f \in Files : \E e \in file[f] :
       /\ e.key # Torn
       /\ file' = [file EXCEPT ![f] = (@ \ {e}) \cup {Entry(e.key, Bad)}]
  /\ faults' = [faults EXCEPT !.rot = @ + 1]
  /\ UNCHANGED <<ready, plan, manifest, launch, at, phase, arrived, wrote, model>>

\* Every rank serves.
Serve == AllDone /\ UNCHANGED vars

-----------------------------------------------------------------------------
Init ==
  /\ ready = FALSE /\ plan = NoPlan
  /\ file = [f \in Files |-> {}]
  /\ manifest = [r \in Ranks |-> NoConfig]
  /\ config \in Configs /\ verify = FALSE
  /\ at = AllOff
  /\ phase = [r \in Ranks |-> 0]
  /\ arrived = [r \in Ranks |-> FALSE]
  /\ wrote = [r \in Ranks |-> {}]
  /\ model = [r \in Ranks |-> <<>>]
  /\ faults = [crash |-> 0, fail |-> 0, rot |-> 0]

Rank(r) ==
  \/ Check(r) \/ Load(r) \/ Wait(r) \/ LoadCheckpoint(r) \/ WriteManifest(r)
  \/ WriteFile(r) \/ FilesWritten(r) \/ PassBarrier(r)

Next ==
  \/ \E c \in Configs, v \in BOOLEAN : Launch(c, v)
  \/ \E r \in Ranks : Rank(r) \/ OpenFile(r) \/ Fail(r)
  \/ OpenPlan \/ WritePlan \/ Publish
  \/ Crash \/ Reap \/ Rot \/ Serve

\* A launch that died is started again, a rank goes on unless it waits at a
\* barrier, and the launcher reaps: none of these waits for anything else.  No
\* fault is bound to happen.
Fairness ==
  /\ WF_vars(\E c \in Configs, v \in BOOLEAN : Launch(c, v))
  /\ \A r \in Ranks : WF_vars(Rank(r)) /\ WF_vars(OpenFile(r))
  /\ WF_vars(OpenPlan) /\ WF_vars(WritePlan) /\ WF_vars(Publish) /\ WF_vars(Reap)

Spec == Init /\ [][Next]_vars /\ Fairness

-----------------------------------------------------------------------------
(* Correctness.                                                            *)

TypeOK ==
  /\ ready \in BOOLEAN
  /\ plan.state \in {"none", "torn", "whole"}
  /\ config \in Configs /\ verify \in BOOLEAN
  /\ at \in [Ranks -> {"off", "check", "load", "dump", "done", "dead"}]
  /\ phase \in [Ranks -> 0..6] /\ arrived \in [Ranks -> BOOLEAN]
  /\ manifest \in [Ranks -> Configs \cup {NoConfig}]
  /\ wrote \in [Ranks -> SUBSET [by : SUBSET Ranks, writer : Ranks]]
  /\ DOMAIN file = Files /\ DOMAIN model = Ranks
  /\ faults \in [crash : 0..MaxCrash, fail : 0..MaxFail, rot : 0..MaxRot]

\* What READY promises: a plan, and every tensor of every rank of the plan's
\* config whole in the file where the plan says it is.
Published ==
  /\ plan.state = "whole" /\ plan.config \in Configs
  /\ \A r \in Ranks :
       /\ plan.held[r] = Weights[plan.config][r]
       /\ \A k \in Held(plan.held, r) :
            FileOf(plan, k) \in Files /\ \E e \in file[FileOf(plan, k)] : e.key = k
ReadyMeansWhole == ready => Published

\* A rank that serves serves its own weights, under its own launch's config, as
\* far as damage on disk does not go unverified.
ServesItsWeights ==
  \A r \in Ranks : at[r] = "done" /\ (verify \/ faults.rot = 0) => model[r] = Weights[config][r]

\* All ranks take the same path: none loads while another writes.
OnePath ==
  \A r, q \in Ranks : at[r] = "load" => at[q] # "dump" \/ phase[q] = 0

\* However often launches are killed, a launch serves in the end and stays up,
\* unless the dump is damaged.
EventuallyServes == <>[](AllDone \/ faults.rot > 0)
=============================================================================
