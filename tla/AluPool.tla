------------------------------ MODULE AluPool ------------------------------
(***************************************************************************)
(* The driver emulator of CUDA/main.c over the list of CUDA/queue.h: the   *)
(* thread icommand hands the commands of CMD one after the other to the    *)
(* ALU in gid, check_work_queue keeps gid at an ALU that is not listed as  *)
(* working, and every ALU has a thread iALU_do_<id> that executes the      *)
(* command it finds again and again.                                       *)
(*                                                                         *)
(* A command is its index in CMD, counted from 1, and 0 is ALU_DUMMY; what *)
(* it computes is left out.  A list entry is identified with its ALU:      *)
(* memory is never freed, and an ALU has at most one entry.                *)
(***************************************************************************)
EXTENDS Integers, FiniteSets

CONSTANTS
  Alus,          (* the indices of ALU                                     *)
  Commands       (* sizeof(CMD)/sizeof(CMD[0])                             *)

ASSUME PoolAssumption ==
  /\ Alus \subseteq Nat /\ IsFiniteSet(Alus) /\ 0 \in Alus
  /\ Commands \in Nat

DUMMY == 0
NULL  == -1

VARIABLES
  command, working,    \* ALU[id].command, the ALUs with status ALU_WORK
  qulist, nxt, pre,    \* the work queue
  gid, DONE, i,        \* i is icommand's
  held,                \* a thread has exited with count_mutex locked
  pc,                  \* of the ALU threads
  checkerPc, icommandPc, mainPc

list  == <<qulist, nxt, pre>>
pcs   == <<pc, checkerPc, icommandPc, mainPc>>
vars  == <<command, working, qulist, nxt, pre, gid, DONE, i, held, pcs>>

Init ==
  /\ command = [id \in Alus |-> DUMMY] /\ working = {}
  /\ qulist = NULL
  /\ nxt = [id \in Alus |-> NULL] /\ pre = [id \in Alus |-> NULL]
  /\ gid = 0 /\ DONE = FALSE /\ i = 0 /\ held = FALSE
  /\ pc = [id \in Alus |-> "check"]
  /\ checkerPc = "loop" /\ icommandPc = "loop" /\ mainPc = "poll"
-----------------------------------------------------------------------------
(* queue.h *)

(* The entries a walk along nxt meets. *)
Listed ==
  LET at[k \in Nat] == IF k = 0 THEN qulist
                       ELSE IF at[k - 1] = NULL THEN NULL ELSE nxt[at[k - 1]]
  IN  {at[k] : k \in 0 .. Cardinality(Alus)} \ {NULL}

put_work_queue(id) ==
  /\ nxt' = [nxt EXCEPT ![id] = qulist]
  /\ pre' = [n \in Alus |-> IF n = id THEN NULL
                            ELSE IF n = qulist THEN id ELSE pre[n]]
  /\ qulist' = id

del_work_queue_NoPre(id) ==
  /\ nxt' = [n \in Alus |-> IF n = pre[id] THEN nxt[id] ELSE nxt[n]]
  /\ qulist' = IF pre[id] = NULL THEN nxt[id] ELSE qulist
  /\ UNCHANGED pre

del_work_queue(id) ==
  /\ nxt' = [n \in Alus |-> IF n = pre[id] THEN nxt[id] ELSE nxt[n]]
  /\ pre' = [n \in Alus |-> IF n = nxt[id] THEN pre[id] ELSE pre[n]]
  /\ qulist' = IF pre[id] = NULL THEN nxt[id] ELSE qulist
-----------------------------------------------------------------------------
(* main.c *)

Goto(id, label) == pc' = [pc EXCEPT ![id] = label]

(* DONE=ALU_OK; pthread_exit(NULL), with the mutex locked.                 *)
GiveUp(id, message) == Goto(id, message) /\ DONE' = TRUE /\ held' = TRUE

iALU_Check_AnyCommand(id) ==
  /\ pc[id] = "check"
  /\ Goto(id, IF id \notin working THEN "lock" ELSE "sleep")
  /\ UNCHANGED <<command, working, list, gid, DONE, i, held,
                 checkerPc, icommandPc, mainPc>>

(* command and status are looked at before the mutex is requested.         *)
iALU_Check(id) ==
  /\ pc[id] = "check"
  /\ Goto(id, IF command[id] # DUMMY /\ id \notin working THEN "lock" ELSE "sleep")
  /\ UNCHANGED <<command, working, list, gid, DONE, i, held,
                 checkerPc, icommandPc, mainPc>>

(* iALU_delay and, for the same commands, iALU_decoder refuse ALU_DUMMY.   *)
iALU_Start(id) ==
  /\ pc[id] = "lock" /\ ~held
  /\ IF command[id] = DUMMY
     THEN GiveUp(id, "ALU_ER_DELAY") /\ UNCHANGED <<working, list>>
     ELSE /\ working' = working \union {id}
          /\ put_work_queue(id)
          /\ Goto(id, "delay")
          /\ UNCHANGED <<DONE, held>>
  /\ UNCHANGED <<command, gid, i, checkerPc, icommandPc, mainPc>>

(* malloc returns NULL. *)
iALU_StartNoMemory(id) ==
  /\ pc[id] = "lock" /\ ~held
  /\ command[id] # DUMMY
  /\ working' = working \union {id}
  /\ GiveUp(id, "QUEUE_ER_PUT")
  /\ UNCHANGED <<command, list, gid, i, checkerPc, icommandPc, mainPc>>

iALU_Finish_StaysListed(id) ==
  /\ pc[id] = "delay" /\ ~held
  /\ working' = working \ {id}
  /\ Goto(id, "sleep")
  /\ UNCHANGED <<command, list, DONE, held, gid, i, checkerPc, icommandPc, mainPc>>

(* After sleep(delay). *)
iALU_Finish(id) ==
  /\ pc[id] = "delay" /\ ~held
  /\ working' = working \ {id}
  /\ IF id \in Listed
     THEN del_work_queue(id) /\ Goto(id, "sleep") /\ UNCHANGED <<DONE, held>>
     ELSE GiveUp(id, "QUEUE_ER_DEL") /\ UNCHANGED list
  /\ UNCHANGED <<command, gid, i, checkerPc, icommandPc, mainPc>>

(* After sleep(ALU_DEF_DELAY). *)
iALU_Again(id) ==
  /\ pc[id] = "sleep"
  /\ Goto(id, IF DONE THEN "exited" ELSE "check")
  /\ UNCHANGED <<command, working, list, gid, DONE, i, held,
                 checkerPc, icommandPc, mainPc>>

iALU_do(id) ==
  \/ iALU_Check(id) \/ iALU_Start(id) \/ iALU_StartNoMemory(id)
  \/ iALU_Finish(id) \/ iALU_Again(id)

(* The lowest ALU that is not listed, or -1. *)
check_work_queue ==
  \/ /\ checkerPc = "loop" /\ ~held
     /\ gid' = IF Alus \subseteq Listed THEN NULL
               ELSE CHOOSE n \in Alus \ Listed : \A o \in Alus \ Listed : n <= o
     /\ checkerPc' = "sleep"
     /\ UNCHANGED <<command, working, list, DONE, i, held, pc, icommandPc, mainPc>>
  \/ /\ checkerPc = "sleep"
     /\ checkerPc' = IF DONE THEN "exited" ELSE "loop"
     /\ UNCHANGED <<command, working, list, gid, DONE, i, held, pc,
                    icommandPc, mainPc>>

icommand_OneMore ==
  /\ icommandPc = "loop" /\ ~held
  /\ IF gid = NULL THEN UNCHANGED <<command, i, DONE, held, icommandPc>>
     ELSE IF i > Commands
     THEN DONE' = TRUE /\ held' = TRUE /\ icommandPc' = "exited"
          /\ UNCHANGED <<command, i>>
     ELSE /\ command' = [command EXCEPT ![gid] = i + 1]
          /\ i' = i + 1
          /\ UNCHANGED <<DONE, held, icommandPc>>
  /\ UNCHANGED <<working, list, gid, pc, checkerPc, mainPc>>

(* gid may be out of date: the ALU may be working, or may not have taken   *)
(* up the command it was given before.  After the last command the thread  *)
(* exits with the mutex locked.                                            *)
icommand ==
  /\ icommandPc = "loop" /\ ~held
  /\ IF gid = NULL THEN UNCHANGED <<command, i, DONE, held, icommandPc>>
     ELSE IF i = Commands
     THEN DONE' = TRUE /\ held' = TRUE /\ icommandPc' = "exited"
          /\ UNCHANGED <<command, i>>
     ELSE /\ command' = [command EXCEPT ![gid] = i + 1]
          /\ i' = i + 1
          /\ UNCHANGED <<DONE, held, icommandPc>>
  /\ UNCHANGED <<working, list, gid, pc, checkerPc, mainPc>>

main ==
  /\ mainPc = "poll" /\ DONE
  /\ mainPc' = "returned"
  /\ UNCHANGED <<command, working, list, gid, DONE, i, held, pc, checkerPc, icommandPc>>

(* When main returns the process ends. *)
Ended == mainPc = "returned" /\ UNCHANGED vars

Next ==
  \/ /\ mainPc = "poll"
     /\ \/ \E id \in Alus : iALU_do(id)
        \/ check_work_queue \/ icommand \/ main
  \/ Ended

Spec == Init /\ [][Next]_vars
-----------------------------------------------------------------------------
(* Types: icommand never reads a command past the end of CMD, and gid is   *)
(* an ALU or -1 (CUDA/main.c:239-245, 280-288).                            *)
TypeOK ==
  /\ command \in [Alus -> 0 .. Commands] /\ i \in 0 .. Commands
  /\ working \subseteq Alus /\ gid \in Alus \union {NULL}
  /\ qulist \in Alus \union {NULL}
  /\ nxt \in [Alus -> Alus \union {NULL}] /\ pre \in [Alus -> Alus \union {NULL}]
  /\ DONE \in BOOLEAN /\ held \in BOOLEAN

(* The list is doubly linked without a loop, whichever ALU finishes first: *)
(* del_work_queue tells the head, the tail and the middle apart by pre and *)
(* nxt alone (CUDA/queue.h:70-101).                                        *)
ListIntact ==
  /\ qulist # NULL => pre[qulist] = NULL
  /\ \A a \in Listed : nxt[a] # NULL => pre[nxt[a]] = a

(* The work queue lists the ALUs that work, except one whose thread found  *)
(* no memory for its entry: so the ALU check_work_queue finds unlisted is  *)
(* free at that moment (CUDA/main.c:135-146, 240-244).                     *)
WorkersListed ==
  Listed = {id \in working : pc[id] # "QUEUE_ER_PUT"}

(* No thread gives up for another reason than a lack of memory: what it    *)
(* looked at without the mutex, a command to execute and an idle ALU, is   *)
(* still so under it, and its entry is still listed when it has finished   *)
(* (CUDA/main.c:127-133, 144-145).  So the emulation ends early, before    *)
(* the last command was handed out, for that reason only (l.282-284).      *)
GivesUpForMemoryOnly ==
  /\ \A id \in Alus : pc[id] \notin {"ALU_ER_DELAY", "QUEUE_ER_DEL"}
  /\ DONE => i = Commands \/ \E id \in Alus : pc[id] = "QUEUE_ER_PUT"
=============================================================================
