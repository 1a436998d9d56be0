------------------------ MODULE ThreadPoolInvariant -------------------------
(***************************************************************************)
(* The inductive invariant of ThreadPool: why no thread can be inside a    *)
(* chunk once the completion counter has reached the number of chunks.     *)
(***************************************************************************)
EXTENDS ThreadPool

Away == {"idle", "asleep", "exited", "out"}
Shared == {"live", "returned"}

\* A thread at work holds a job that was published, and the slot one that is live.
Held ==
    /\ \A t \in Threads :
          pc[t] \notin Away => job[t] \in Jobs /\ fate[job[t]] \in Shared
    /\ current # NoJob => fate[current] = "live"

\* A caller's job is its own, and live until it withdraws it.
Owned ==
    \A c \in Callers : pc[c] # "out" =>
        /\ fate[job[c]] = "live"
        /\ \A d \in Callers \ {c} : pc[d] # "out" => job[d] # job[c]

(***************************************************************************)
(* The completion counter is the number of chunks counted, each of them    *)
(* claimed before; a call that returned has counted as many as it has.     *)
(***************************************************************************)
Counting ==
    \A j \in Jobs :
        /\ counted[j] \subseteq 0..(plan[j].tasks - 1)
        /\ fate[j] \in Shared =>
              /\ done[j] = Cardinality(counted[j])
              /\ \A k \in counted[j] : k < next[j]
        /\ fate[j] = "unused" => next[j] = 0 /\ done[j] = 0 /\ counted[j] = {}
        /\ fate[j] = "returned" => done[j] >= plan[j].tasks
        /\ fate[j] = "inline" => counted[j] = 0..(plan[j].tasks - 1)

\* A chunk being run was claimed, was not counted, and is no other thread's.
Claimed ==
    \A t \in Threads : pc[t] = "body" =>
        /\ chunk[t] < plan[job[t]].tasks
        /\ chunk[t] < next[job[t]]
        /\ chunk[t] \notin counted[job[t]]
        /\ \A u \in Threads \ {t} :
              pc[u] = "body" /\ job[u] = job[t] => chunk[u] # chunk[t]

\* A caller past the join has seen every chunk counted.
Joined ==
    \A c \in Callers : pc[c] = "withdraw" => done[job[c]] >= plan[job[c]].tasks

\* A published job was cut as ChunkSize and NumTasks cut it.
Cut ==
    \A j \in Jobs : fate[j] # "unused" =>
        /\ plan[j].chunk > 0
        /\ plan[j].tasks = NumTasks(plan[j].n, plan[j].chunk)

\* With one caller, a live job is the one in the slot and its call is under way.
SoleCaller == \A c, d \in Callers : c = d

LiveIsCalled ==
    \A j \in Jobs : fate[j] = "live" =>
        /\ current = j
        /\ \E c \in Callers : pc[c] # "out" /\ job[c] = j

IInv ==
    /\ TypeOK /\ Held /\ Owned
    /\ Counting /\ Claimed /\ Joined /\ Cut
=============================================================================
