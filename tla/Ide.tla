-------------------------------- MODULE Ide ---------------------------------
(***************************************************************************)
(* The disk driver, device/ide.c: ide_read and ide_write on one channel,   *)
(* its interrupt, and busy_wait with the clock.  The disk and the          *)
(* interrupt controller are external.                                      *)
(*                                                                         *)
(* Processes call the driver in system calls, with interrupts off; the     *)
(* boot thread calls it with interrupts on.  Control points (pc):          *)
(*   "user"     outside the driver                                         *)
(*   "acquire"  about to take the channel's mutex; "lock" asleep on it     *)
(*   "select"   about to fill the registers                                *)
(*   "expect"   about to set expecting_intr; "command" to send the command *)
(*   "down"     about to enter sema_down(disk_done); "asleep" in it        *)
(*   "poll"     in busy_wait, about to read the status                     *)
(*   "nap"      in busy_wait, in the loop of ticks_to_sleep                *)
(*   "transfer" about to move the data; "release" to let the mutex go      *)
(*   "idle", "halt"   the idle thread                                      *)
(***************************************************************************)
EXTENDS KMutex

CONSTANTS
  channel,      \* the mutex of the channel
  disk_done,    \* its semaphore
  main_thread,  \* the boot thread
  queued,       \* the run queue behind it
  MaxLba,       \* the last sector: max_lba
  Values,       \* what a sector holds
  MaxSectors,   \* sectors one command moves: 256
  Ranges,       \* first sector and number of sectors of the requests
  TimeLimit,    \* how often busy_wait asks: 29999
  MaxSleep      \* bound: ticks that mtime_sleep waits

ASSUME IdeAssumption ==
  /\ Mutexes = {channel} /\ disk_done \in Semas /\ disk_done # channel
  /\ main_thread \in Threads \ {idle_thread}
  /\ queued \in Seq(Threads \ {main_thread}) /\ NoDuplicates(queued)
  /\ \A t \in Threads \ {main_thread} : elem_find(queued, t)
  /\ MaxLba \in Nat
  /\ MaxSectors \in Nat \ {0}
  /\ \A r \in Ranges : /\ r \in (0..MaxLba) \X (1..MaxLba + 1)
                       /\ r[1] + r[2] - 1 <= MaxLba
  /\ TimeLimit \in Nat \ {0} /\ MaxSleep \in Nat

VARIABLES
  sched,      \* threads, disk_done and the mutex (module KMutex)
  expecting,  \* channel->expecting_intr
  pc,         \* control point of each thread
  req,        \* each thread's request: op, lba, sec_cnt, data
  secs_done,  \* and how many of its sectors are done
  polls,      \* how often busy_wait has asked (one thread at a time is in it)
  nap,        \* ticks left of its mtime_sleep
  result,     \* what the last ide_read returned
  dev,        \* external: the disk's registers, state and buffer
  irq,        \* external: the disk's interrupt request is pending
  store       \* external: the sectors

vars == <<sched, expecting, pc, req, secs_done, polls, nap, result, dev, irq, store>>

Callers == Threads \ {idle_thread}

Lbas == 0..MaxLba

-----------------------------------------------------------------------------
NoRequest == [op |-> "none", lba |-> 0, sec_cnt |-> 0, data |-> <<>>]

\* The sectors a command of n sectors, starting at lba, finds in f.
Slice(f, lba, n) == [i \in 1..n |-> f[lba + i - 1]]

\* f after the sectors from lba on were replaced by data.
Overlay(f, lba, data) ==
  [l \in DOMAIN f |-> IF l \in lba..lba + Len(data) - 1 THEN data[l - lba + 1]
                                                        ELSE f[l]]

At(t, label) == sched.cur = t /\ ~sched.panic /\ pc[t] = label

Goto(t, label) == pc' = [pc EXCEPT ![t] = label]

(* The boot thread runs the driver with interrupts on, except where        *)
(* sema_down and mutex_acquire resume it; system calls run with interrupts *)
(* off.                                                                    *)
InterruptsOn ==
  /\ ~sched.panic
  /\ \/ pc[sched.cur] \in {"user", "idle", "halt"}
     \/ sched.cur = main_thread /\ pc[sched.cur] \notin {"lock", "asleep"}

(* ide_init has set up the channel; nobody uses it. *)
Init ==
  /\ sched = [cur       |-> main_thread,
              status    |-> [t \in Threads |-> IF t = main_thread THEN "RUNNING"
                                                                  ELSE "READY"],
              ready     |-> queued,
              this_tick |-> time_slice,
              panic     |-> FALSE,
              sema      |-> [x \in Semas |-> sema_init(IF x = disk_done THEN 0 ELSE 1)],
              mutex     |-> [m \in Mutexes |-> mutex_init]]
  /\ expecting = FALSE
  /\ pc = [t \in Threads |-> IF t = idle_thread THEN "idle" ELSE "user"]
  /\ req = [t \in Threads |-> NoRequest]
  /\ secs_done = [t \in Threads |-> 0]
  /\ polls = 0
  /\ nap = 0
  /\ result = <<>>
  /\ dev = [phase |-> "ready", op |-> "none", lba |-> 0, cnt |-> 0, buf |-> <<>>]
  /\ irq = FALSE
  /\ store \in [Lbas -> Values]

-----------------------------------------------------------------------------
(* The caller asks for a range of sectors, to write any contents to it. *)
Request(t, op) ==
  /\ At(t, "user")
  /\ \E r \in Ranges :
       \E data \in IF op = "write" THEN [1..r[2] -> Values] ELSE {<<>>} :
         req' = [req EXCEPT ![t] = [op |-> op, lba |-> r[1], sec_cnt |-> r[2],
                                    data |-> data]]
  /\ secs_done' = [secs_done EXCEPT ![t] = 0]
  /\ result' = <<>>
  /\ Goto(t, "acquire")
  /\ UNCHANGED <<sched, expecting, polls, nap, dev, irq, store>>

Acquire(t) ==
  /\ At(t, "acquire") \/ At(t, "lock")
  /\ sched' = mutex_acquire(sched, channel)
  /\ Goto(t, IF Acquires(sched, channel) THEN "select" ELSE "lock")
  /\ UNCHANGED <<expecting, req, secs_done, polls, nap, result, dev, irq, store>>

(* Sectors of the next command: at most MaxSectors. *)
secs_to_move(t) ==
  IF secs_done[t] + MaxSectors <= req[t].sec_cnt THEN MaxSectors
  ELSE req[t].sec_cnt - secs_done[t]

(* Fault: every command starts at the first sector of the request. *)
select_sector_First(t) ==
  /\ At(t, "select")
  /\ dev' = [dev EXCEPT !.lba = req[t].lba, !.cnt = secs_to_move(t) % MaxSectors]
  /\ Goto(t, "expect")
  /\ UNCHANGED <<sched, expecting, req, secs_done, polls, nap, result, irq, store>>

(* The 8-bit sector count register holds 0 for MaxSectors. *)
select_sector(t) ==
  /\ At(t, "select")
  /\ dev' = [dev EXCEPT !.lba = req[t].lba + secs_done[t],
                        !.cnt = secs_to_move(t) % MaxSectors]
  /\ Goto(t, "expect")
  /\ UNCHANGED <<sched, expecting, req, secs_done, polls, nap, result, irq, store>>

(* expecting_intr is set. *)
Expect(t, from, to) ==
  /\ At(t, from)
  /\ expecting' = TRUE
  /\ Goto(t, to)
  /\ UNCHANGED <<sched, req, secs_done, polls, nap, result, dev, irq, store>>

(* The disk takes the command, and takes back an interrupt request nobody  *)
(* has seen.                                                               *)
Command(t, from, to) ==
  /\ At(t, from)
  /\ dev' = [dev EXCEPT !.phase = "busy", !.op = req[t].op]
  /\ irq' = FALSE
  /\ polls' = 0
  /\ Goto(t, to)
  /\ UNCHANGED <<sched, expecting, req, secs_done, nap, result, store>>

\* Where a command leaves its caller: a reader sleeps first, a writer polls.
Sent(t) == IF req[t].op = "read" THEN "down" ELSE "poll"

(* Fault: the command goes out before the flag is set. *)
cmd_out_Swapped(t) ==
  Command(t, "expect", "command") \/ Expect(t, "command", Sent(t))

(* First the flag, then the command. *)
cmd_out(t) ==
  Expect(t, "expect", "command") \/ Command(t, "command", Sent(t))

(* Fault: a full command is counted, however short it was. *)
EndOfLoop_Full(t) ==
  LET done == secs_done[t] + MaxSectors
  IN  /\ secs_done' = [secs_done EXCEPT ![t] = done]
      /\ Goto(t, IF done < req[t].sec_cnt THEN "select" ELSE "release")

(* The end of the loop's body: the next command, or none. *)
EndOfLoop(t) ==
  LET done == secs_done[t] + secs_to_move(t)
  IN  /\ secs_done' = [secs_done EXCEPT ![t] = done]
      /\ Goto(t, IF done < req[t].sec_cnt THEN "select" ELSE "release")

(* sema_down(disk_done): a reader then polls, a writer has done its loop.  *)
Down(t) ==
  /\ At(t, "down") \/ At(t, "asleep")
  /\ sched' = sema_down(sched, disk_done)
  /\ \/ ~Available(sched, disk_done) /\ Goto(t, "asleep") /\ UNCHANGED secs_done
     \/ /\ Available(sched, disk_done) /\ req[t].op = "read"
        /\ Goto(t, "poll")
        /\ UNCHANGED secs_done
     \/ /\ Available(sched, disk_done) /\ req[t].op = "write"
        /\ EndOfLoop(t)
  /\ UNCHANGED <<expecting, req, polls, nap, result, dev, irq, store>>

(* busy_wait: reading the status also takes back the interrupt request.    *)
(* mtime_sleep sleeps as many ticks as the machine has been up, a number   *)
(* this model does not keep.                                               *)
busy_wait(t) ==
  /\ At(t, "poll")
  /\ irq' = FALSE
  /\ \/ /\ dev.phase \notin {"busy", "storing"}
        /\ sched' = ASSERT(sched, dev.phase = "drq")
        /\ Goto(t, "transfer")
        /\ UNCHANGED <<polls, nap>>
     \/ /\ dev.phase \in {"busy", "storing"}
        /\ polls + 1 < TimeLimit
        /\ polls' = polls + 1
        /\ nap' \in 0..MaxSleep
        /\ Goto(t, "nap")
        /\ UNCHANGED sched
     \/ /\ dev.phase \in {"busy", "storing"}
        /\ polls + 1 = TimeLimit
        /\ sched' = ASSERT(sched, FALSE)
        /\ polls' = TimeLimit
        /\ UNCHANGED <<pc, nap>>
  /\ UNCHANGED <<expecting, req, secs_done, result, dev, store>>

ticks_to_sleep(t) ==
  /\ At(t, "nap")
  /\ \/ nap > 0 /\ sched' = thread_yield(sched) /\ UNCHANGED pc
     \/ nap = 0 /\ Goto(t, "poll") /\ UNCHANGED sched
  /\ UNCHANGED <<expecting, req, secs_done, polls, nap, result, dev, irq, store>>

read_from_sector(t) ==
  /\ At(t, "transfer") /\ req[t].op = "read"
  /\ req' = [req EXCEPT ![t].data = @ \o dev.buf]
  /\ dev' = [dev EXCEPT !.phase = "ready"]
  /\ EndOfLoop(t)
  /\ UNCHANGED <<sched, expecting, polls, nap, result, irq, store>>

(* Fault: the writer does not wait for the disk to store its data. *)
write_to_sector_NoWait(t) ==
  /\ At(t, "transfer") /\ req[t].op = "write"
  /\ dev' = [dev EXCEPT !.phase = "storing",
                        !.buf = SubSeq(req[t].data, secs_done[t] + 1,
                                       secs_done[t] + secs_to_move(t))]
  /\ EndOfLoop(t)
  /\ UNCHANGED <<sched, expecting, req, polls, nap, result, irq, store>>

write_to_sector(t) ==
  /\ At(t, "transfer") /\ req[t].op = "write"
  /\ dev' = [dev EXCEPT !.phase = "storing",
                        !.buf = SubSeq(req[t].data, secs_done[t] + 1,
                                       secs_done[t] + secs_to_move(t))]
  /\ Goto(t, "down")
  /\ UNCHANGED <<sched, expecting, req, secs_done, polls, nap, result, irq, store>>

Return(t) ==
  /\ At(t, "release")
  /\ sched' = mutex_release(sched, channel)
  /\ result' = IF req[t].op = "read" THEN req[t].data ELSE result
  /\ req' = [req EXCEPT ![t] = NoRequest]
  /\ secs_done' = [secs_done EXCEPT ![t] = 0]
  /\ Goto(t, "user")
  /\ UNCHANGED <<expecting, polls, nap, dev, irq, store>>

ide_read(t) == Request(t, "read")
ide_write(t) == Request(t, "write")

Step(t) ==
  \/ Acquire(t) \/ select_sector(t) \/ cmd_out(t) \/ Down(t)
  \/ busy_wait(t) \/ ticks_to_sleep(t) \/ read_from_sector(t) \/ write_to_sector(t)
  \/ Return(t)

-----------------------------------------------------------------------------
(* External: the disk, as the driver uses it. A command raises one         *)
(* interrupt; the sectors of a command move all at once.                   *)

\* The number of sectors the register asks for.
Count == IF dev.cnt = 0 THEN MaxSectors ELSE dev.cnt

(* Ready for the data: of a read the disk has it and requests an interrupt. *)
DiskReady ==
  /\ dev.phase = "busy" /\ ~sched.panic
  /\ IF dev.op = "read"
     THEN /\ dev' = [dev EXCEPT !.phase = "drq", !.buf = Slice(store, dev.lba, Count)]
          /\ irq' = TRUE
     ELSE dev' = [dev EXCEPT !.phase = "drq"] /\ UNCHANGED irq
  /\ UNCHANGED <<sched, expecting, pc, req, secs_done, polls, nap, result, store>>

(* The data of a write is on the disk. *)
DiskStored ==
  /\ dev.phase = "storing" /\ ~sched.panic
  /\ store' = Overlay(store, dev.lba, dev.buf)
  /\ dev' = [dev EXCEPT !.phase = "ready"]
  /\ irq' = TRUE
  /\ UNCHANGED <<sched, expecting, pc, req, secs_done, polls, nap, result>>

-----------------------------------------------------------------------------
(* Interrupts *)

LeaveHalt ==
  pc' = [pc EXCEPT ![sched.cur] = IF @ = "halt" THEN "idle" ELSE @]

intr_hd_handler ==
  /\ InterruptsOn /\ irq
  /\ irq' = FALSE
  /\ expecting' = FALSE
  /\ sched' = IF expecting THEN sema_up(sched, disk_done) ELSE sched
  /\ LeaveHalt
  /\ UNCHANGED <<req, secs_done, polls, nap, result, dev, store>>

Timer ==
  /\ InterruptsOn
  /\ sched' = intr_timer_handler(sched)
  /\ nap' = IF nap > 0 THEN nap - 1 ELSE 0
  /\ LeaveHalt
  /\ UNCHANGED <<expecting, req, secs_done, polls, result, dev, irq, store>>

IdleBlock ==
  /\ At(idle_thread, "idle")
  /\ sched' = thread_block(sched, "BLOCKED")
  /\ Goto(idle_thread, "halt")
  /\ UNCHANGED <<expecting, req, secs_done, polls, nap, result, dev, irq, store>>

(* A failed ASSERT or a PANIC ends here. *)
panic_spin == sched.panic /\ UNCHANGED vars

Next ==
  \/ \E t \in Callers : Step(t) \/ ide_read(t) \/ ide_write(t)
  \/ DiskReady \/ DiskStored
  \/ intr_hd_handler \/ Timer \/ IdleBlock \/ panic_spin

Spec == Init /\ [][Next]_vars

(* The driver's calls go on when they have the CPU, the disk answers, and  *)
(* both interrupts stay pending while interrupts are off. Callers need not *)
(* ask.                                                                    *)
FairSpec ==
  /\ Spec
  /\ \A t \in Callers : SF_vars(Step(t))
  /\ WF_vars(DiskReady) /\ WF_vars(DiskStored)
  /\ SF_vars(intr_hd_handler) /\ SF_vars(Timer) /\ WF_vars(IdleBlock)

-----------------------------------------------------------------------------
TypeOK ==
  /\ sched.cur \in Threads
  /\ sched.status \in [Threads -> Status]
  /\ \A x \in Semas : sched.sema[x].value \in {0, 1}
  /\ sched.mutex \in MutexState
  /\ expecting \in BOOLEAN
  /\ pc \in [Threads -> {"user", "acquire", "lock", "select", "expect", "command",
                         "down", "asleep", "poll", "nap", "transfer", "release",
                          "idle", "halt"}]
  /\ \A t \in Threads : secs_done[t] <= req[t].sec_cnt
  /\ polls \in 0..TimeLimit
  /\ nap \in 0..MaxSleep
  /\ store \in [Lbas -> Values]

(* The only panic is busy_wait's, when the disk stays busy for too long:   *)
(* disk_done never counts to 2, and the disk has data, or room for it,     *)
(* whenever the driver moves some.                                         *)
OnlyTimeoutPanics == sched.panic => polls = TimeLimit

(* No command is sent to a disk that still works on another one.           *)
CommandsInTurn ==
  \A t \in Threads : pc[t] \in {"select", "expect", "command"} => dev.phase = "ready"

(* A thread asleep on disk_done has its interrupt still to come: the disk  *)
(* works on its command, or has asked for the interrupt, and the handler   *)
(* will not ignore it.                                                     *)
NoLostInterrupt ==
  \A t \in Threads :
    pc[t] = "asleep" /\ sched.status[t] = "BLOCKED" =>
      expecting /\ (irq \/ dev.phase \in {"busy", "storing"})

(* The handler's own comment: when the interrupt comes, a command has been *)
(* sent, so expecting_intr is set.                                         *)
InterruptsExpected == irq => expecting

(* A write takes effect when the disk has stored its first sectors; from   *)
(* then on the rest of the request counts as written.                      *)
Begun == {t \in Threads : /\ req[t].op = "write"
                          /\ \/ secs_done[t] > 0
                             \/ pc[t] \in {"down", "asleep"} /\ dev.phase = "ready"}

Visible ==
  [l \in Lbas |->
     IF \E t \in Begun : l \in req[t].lba..req[t].lba + req[t].sec_cnt - 1
     THEN LET t == CHOOSE u \in Begun : l \in req[u].lba..req[u].lba + req[u].sec_cnt - 1
          IN  req[t].data[l - req[t].lba + 1]
     ELSE store[l]]

(* Requests of any number of commands, of all threads, are atomic (module  *)
(* Disk): no reader sees half of a write.                                  *)
D == INSTANCE Disk WITH disk <- Visible

ImplementsDisk == D!Spec

(* busy_wait ends (its comment: after 30 seconds at the latest). *)
BusyWaitEnds ==
  \A t \in Threads : pc[t] \in {"poll", "nap"} ~> pc[t] \notin {"poll", "nap"} \/ sched.panic
=============================================================================
