-------------------------- MODULE WorkloadControl --------------------------
(***************************************************************************)
(* The table of workload affinities, control/retryix_control.c.  It has no *)
(* lock: here one thread sets affinities, field by field, while others     *)
(* query them, field by field.                                             *)
(*                                                                         *)
(* A configuration stands for the five values it gives, the defaults it    *)
(* leaves included, so a field holds the configuration that wrote it.      *)
(* Workloads have identifiers other than 0, which every fresh entry bears  *)
(* between its being counted and its being named.                          *)
(***************************************************************************)
EXTENDS Integers

CONSTANTS
  Readers, Workloads, Configs, MAX_WORKLOADS,
  NumFields,   \* of an entry, 5, which are all treated alike: numa_node, gpu_device,
               \* network_port, rdma_enabled, gpu_audio_offload
  Nobody, Untouched

ASSUME WorkloadAssumption ==
  /\ NumFields \in Nat \ {0}
  /\ MAX_WORKLOADS \in Nat
  /\ Nobody \notin Workloads

VARIABLES
  g_workload_table, g_workload_count,
  setting,     \* the call of set_workload_topology_affinity that runs
  asking,      \* of each reader, the call of query_workload_affinity
  given,       \* history: configurations that calls gave a workload
  settled      \* history: workloads that some call has finished setting

tableVars == <<g_workload_table, g_workload_count, setting, asking, given, settled>>

Entries == 0 .. MAX_WORKLOADS - 1
Fields == 1 .. NumFields

NoCall == [at |-> "idle", workload |-> Nobody, config |-> Untouched, index |-> 0, field |-> 1]
NoQuery == [at |-> "idle", workload |-> Nobody, index |-> 0, field |-> 1,
            answer |-> [f \in Fields |-> Untouched], settled |-> FALSE]

TableInit ==
  /\ g_workload_table = [i \in Entries |->
                           [id |-> Nobody, value |-> [f \in Fields |-> Untouched]]]
  /\ g_workload_count = 0
  /\ setting = NoCall
  /\ asking = [r \in Readers |-> NoQuery]
  /\ given = [w \in Workloads |-> {}]
  /\ settled = {}

(* Fault: the last entry is not searched. *)
Known_Short == 0 .. g_workload_count - 2
Known == 0 .. g_workload_count - 1

Entry(w) == {i \in Known : g_workload_table[i].id = w}
First(S) == CHOOSE i \in S : \A j \in S : i <= j

(* set_workload_topology_affinity: a configuration that does not parse    *)
(* changes nothing; the entry of the workload is looked for.              *)
Search(w, c) ==
  /\ setting.at = "idle"
  /\ \/ /\ Entry(w) # {}
        /\ setting' = [at |-> "write", workload |-> w, config |-> c,
                       index |-> First(Entry(w)), field |-> 1]
        /\ UNCHANGED g_workload_count
     \/ /\ Entry(w) = {}
        /\ g_workload_count < MAX_WORKLOADS    \* else out of memory
        /\ setting' = [at |-> "name", workload |-> w, config |-> c,
                       index |-> g_workload_count, field |-> 1]
        /\ g_workload_count' = g_workload_count + 1
  /\ given' = [given EXCEPT ![w] = @ \cup {c}]
  /\ UNCHANGED <<g_workload_table, asking, settled>>

NameEntry ==
  /\ setting.at = "name"
  /\ g_workload_table' = [g_workload_table EXCEPT ![setting.index].id = setting.workload]
  /\ setting' = [setting EXCEPT !.at = "write"]
  /\ UNCHANGED <<g_workload_count, asking, given, settled>>

WriteField ==
  /\ setting.at = "write"
  /\ g_workload_table' =
       [g_workload_table EXCEPT ![setting.index].value[setting.field] = setting.config]
  /\ IF setting.field < NumFields
       THEN setting' = [setting EXCEPT !.field = @ + 1] /\ UNCHANGED settled
       ELSE setting' = NoCall /\ settled' = settled \cup {setting.workload}
  /\ UNCHANGED <<g_workload_count, asking, given>>

(* query_workload_affinity: the search, then the fields one after the other. *)
Ask(r, w) ==
  /\ asking[r].at # "read"
  /\ asking' = [asking EXCEPT ![r] =
       [NoQuery EXCEPT
          !.at = IF Entry(w) = {} THEN "missing" ELSE "read",
          !.workload = w,
          !.index = IF Entry(w) = {} THEN 0 ELSE First(Entry(w)),
          !.settled = w \in settled]]
  /\ UNCHANGED <<g_workload_table, g_workload_count, setting, given, settled>>

ReadField(r) ==
  /\ asking[r].at = "read"
  /\ LET f == asking[r].field IN
     asking' = [asking EXCEPT
       ![r].answer[f] = g_workload_table[asking[r].index].value[f],
       ![r].field = f + 1,
       ![r].at = IF f < NumFields THEN "read" ELSE "answered"]
  /\ UNCHANGED <<g_workload_table, g_workload_count, setting, given, settled>>

TableNext ==
  \/ NameEntry \/ WriteField
  \/ \E w \in Workloads, c \in Configs : Search(w, c)
  \/ \E r \in Readers : ReadField(r) \/ \E w \in Workloads : Ask(r, w)

TableSpec == TableInit /\ [][TableNext]_tableVars

TableTypeOK ==
  /\ g_workload_table \in [Entries -> [id : Workloads \cup {Nobody},
                                       value : [Fields -> Configs \cup {Untouched}]]]
  /\ g_workload_count \in 0 .. MAX_WORKLOADS
  /\ setting.at \in {"idle", "name", "write"}

(* Whatever a query says of a workload was given to that workload by some   *)
(* call, never to another; only before a first call has ended may a field   *)
(* still be untouched, and from then on the workload is found at once, also *)
(* in a full table and while the fields are being set anew.                 *)
AnswersWereGiven ==
  \A r \in Readers :
    LET q == asking[r] IN
       /\ q.settled => q.at # "missing"
       /\ \A f \in 1 .. q.field - 1 : q.answer[f] \in given[q.workload]
                                            \cup (IF q.settled THEN {} ELSE {Untouched})
=============================================================================
