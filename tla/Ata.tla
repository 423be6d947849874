-------------------------------- MODULE Ata --------------------------------
(***************************************************************************)
(* The ATA driver, kernel/hardware/ata.c: detection, programmed reads and  *)
(* writes, packet reads with their interrupts, and ata_lock round them.    *)
(*                                                                         *)
(* The lock is KLock, with all that any of its users does to a lock.       *)
(* ide_dev_read and ide_dev_write transfer while they hold it;             *)
(* ide_dev_zero takes no lock.  Where two transfers are under way on one   *)
(* channel its registers are a mixture: the model ends there (torn).       *)
(* Loops that poll a register are actions that wait for it.                *)
(***************************************************************************)
EXTENDS KLock, Integers, FiniteSets

CONSTANTS
  Buses,      \* what may answer at the four positions: sequences of [is, lba]
  Requests,   \* bound: the calls, with their threads: records [by, op, lba, num]
  Far,        \* 0x10000000, from where on LBA48 is used
  Byte,       \* 256, the values of numsects
  NoX, Ended  \* no transfer; a transfer before the release of the lock

ASSUME AtaAssumption ==
  /\ \A b \in Buses : /\ b \in Seq([is : {"ata", "atapi", "other", "none"}, lba : BOOLEAN])
                      /\ Len(b) <= 4
  /\ NoX \notin Nat \X Nat
  /\ Byte \in Nat \ {0}
  /\ Requests \subseteq [by : Thread, op : {"read", "write", "zero"}, lba : Nat, num : Nat]

VARIABLES
  drives,     \* ide_devices
  xfer,       \* by thread: its transfer
  dev,        \* by channel: the state of the device that was selected
  ien,        \* by channel: interrupts are enabled
  pend,       \* an interrupt of either channel has been raised
  irq,        \* irq_called
  torn        \* see above

avars == <<drives, xfer, dev, ien, pend, irq, torn>>
all == <<vars, avars>>

Channels == {0, 1}

(* ide_initialize: positions that do not answer, or with neither           *)
(* signature, are passed over; the others are numbered in order.           *)
Present(b) == {i \in DOMAIN b : b[i].is \in {"ata", "atapi"}}

Detected(b) ==
  [k \in 1 .. Cardinality(Present(b)) |->
     LET i == CHOOSE i \in Present(b) : Cardinality({j \in Present(b) : j <= i}) = k
     IN  [type |-> b[i].is, channel |-> (i - 1) \div 2, drive |-> (i - 1) % 2, lba |-> b[i].lba]]

Still == [phase |-> "idle", then |-> "idle", rings |-> FALSE, drive |-> 0, at |-> 0, left |-> 0]

AInit ==
  /\ Init
  /\ \E b \in Buses : drives = Detected(b)
  /\ xfer = [t \in Thread |-> NoX]
  /\ dev = [c \in Channels |-> Still]
  /\ ien = [c \in Channels |-> FALSE]
  /\ pend = FALSE /\ irq = FALSE /\ torn = FALSE

----------------------------------------------------------------------------
(* The device: what it does with a command, until it asks for data (drq),  *)
(* is done (idle) or fails; most of these raise an interrupt.              *)
Device(c) ==
  /\ ~torn /\ dev[c].phase = "busy"
  /\ \/ /\ dev' = [dev EXCEPT ![c] = IF @.then = "idle" THEN Still
                                      ELSE [@ EXCEPT !.phase = "drq", !.rings = FALSE]]
        /\ pend' = (pend \/ (ien[c] /\ dev[c].rings))
     \/ /\ dev' = [dev EXCEPT ![c] = [Still EXCEPT !.phase = "fault"]]
        /\ pend' = (pend \/ ien[c])
  /\ UNCHANGED <<vars, drives, xfer, ien, irq, torn>>

Busy(then, rings, d, at, left) ==
  [phase |-> "busy", then |-> then, rings |-> rings, drive |-> d, at |-> at, left |-> left]

(* ide_irq *)
Irq ==
  /\ ~torn /\ pend
  /\ irq' = TRUE /\ pend' = FALSE
  /\ UNCHANGED <<vars, drives, xfer, dev, ien, torn>>

----------------------------------------------------------------------------
Active(t) == xfer[t] \notin {NoX, Ended} /\ xfer[t].step # "done"
In(t, s) == ~torn /\ xfer[t] \notin {NoX, Ended} /\ xfer[t].step = s
Drive(t) == drives[xfer[t].drive]
Chan(t) == Drive(t).channel
Status(t) == dev[Chan(t)].phase

To(t, s) == xfer' = [xfer EXCEPT ![t].step = s]
Return(t, r) == xfer' = [xfer EXCEPT ![t] = [@ EXCEPT !.step = "done", !.ret = r]]

Mixed(t, c) == \E u \in Thread \ {t} : Active(u) /\ Chan(u) = c

(* ide_dev_read and ide_dev_write inside the lock, ide_dev_zero without.   *)
(* `each' is the sectors of one command: a packet and a zeroing have one.  *)
(* (A disc is never written; a packet read of no sector returns an `err'   *)
(* that was never set.)                                                    *)
Begin(t) ==
  /\ ~torn /\ Runs(t) /\ xfer[t] = NoX
  /\ \E d \in DOMAIN drives, q \in Requests, err \in {0, 2} :
       LET pack == drives[d].type = "atapi"
           zero == q.op = "zero"
           n    == IF zero THEN q.num ELSE q.num % Byte
       IN  /\ q.by = t /\ pc[t] = IF zero THEN "out" ELSE "in"
           /\ pack => q.op = "read"
           /\ err = 0 \/ (pack /\ n = 0)
           /\ xfer' = [xfer EXCEPT ![t] =
                [op |-> q.op, drive |-> d, lba |-> q.lba, n |-> n, moved |-> <<>>, ret |-> err,
                 each |-> IF pack \/ zero THEN 1 ELSE n,
                 step |-> IF (pack \/ zero) /\ n = 0 THEN "done" ELSE "start"]]
           /\ torn' = Mixed(t, drives[d].channel)
  /\ UNCHANGED <<vars, drives, dev, ien, pend, irq>>

(* Mutant of Here: every command of a transfer goes to its first sector. *)
HereStays(x) == x.lba

Here(x) == x.lba + Len(x.moved)

Writes(t) == xfer[t].op # "read"

(* After a command: the next one of this transfer, or the end. *)
Onward(t, x, r) ==
  xfer' = [xfer EXCEPT ![t] = [x EXCEPT !.step = IF Len(x.moved) < x.n THEN "start" ELSE "done",
                                        !.ret = IF x.op = "zero" THEN 0 ELSE r]]

Failed(t) == [xfer[t] EXCEPT !.moved = Append(@, NoX)]

(* ide_ata_access refuses a drive without LBA, below Far; else it waits    *)
(* for BSY to clear and writes the registers.  Those of LBA48 are written  *)
(* through the control register, which enables interrupts.                 *)
Command(t) ==
  /\ In(t, "start") /\ Drive(t).type = "ata"
  /\ LET x == xfer[t]
         c == Chan(t)
         count == IF x.each = 0 THEN Byte ELSE x.each
     IN  \/ /\ Here(x) < Far /\ ~Drive(t).lba
            /\ IF x.op = "zero" THEN Onward(t, Failed(t), 0) ELSE Return(t, 114)
            /\ UNCHANGED <<dev, ien>>
         \/ /\ Here(x) >= Far \/ Drive(t).lba
            /\ dev[c].phase # "busy"
            /\ dev' = [dev EXCEPT ![c] = Busy("drq", ~Writes(t), x.drive, Here(x), count)]
            /\ ien' = [ien EXCEPT ![c] = @ \/ Here(x) >= Far]
            /\ IF x.each = 0 THEN IF Writes(t) THEN To(t, "flush") ELSE Return(t, 0)
               ELSE To(t, IF Writes(t) THEN "wpoll" ELSE "poll")
  /\ UNCHANGED <<vars, drives, pend, irq, torn>>

(* ide_atapi_read up to the packet command; it does not wait for BSY. *)
Packet(t) ==
  /\ In(t, "start") /\ Drive(t).type = "atapi"
  /\ LET c == Chan(t)
     IN  /\ torn' = (dev[c].phase = "busy")
         /\ ien' = [ien EXCEPT ![c] = TRUE]
         /\ dev' = [dev EXCEPT ![c] = Busy("drq", FALSE, xfer[t].drive, 0, 0)]
  /\ To(t, "ppoll")
  /\ UNCHANGED <<vars, drives, pend, irq>>

(* Mutant of AtapiFlow: the flag is reset before it is waited for. *)
AtapiFlowReset == [ppoll |-> "send", send |-> "clear", clear |-> "wait", wait |-> "dpoll",
                   dpoll |-> "move", move |-> "wait2", wait2 |-> "clear2", clear2 |-> "drain"]

AtapiFlow == [ppoll |-> "send", send |-> "wait", wait |-> "clear", clear |-> "dpoll",
              dpoll |-> "move", move |-> "wait2", wait2 |-> "clear2", clear2 |-> "drain"]

AtaFlow == [poll |-> "move", wpoll |-> "move"]

(* ide_polling with its checks; an error ends an access, or the packet of  *)
(* one sector: ide_read_sectors goes on with the next and keeps the last.  *)
Poll(t) ==
  /\ \E s \in {"poll", "ppoll", "dpoll"} :
       /\ In(t, s) /\ Status(t) # "busy"
       /\ IF Status(t) = "drq" THEN To(t, IF s = "poll" THEN AtaFlow[s] ELSE AtapiFlow[s])
          ELSE LET r == IF Status(t) = "fault" THEN 2 ELSE 3
               IN  IF s = "poll" THEN Return(t, r) ELSE Onward(t, Failed(t), r)
  /\ UNCHANGED <<vars, drives, dev, ien, pend, irq, torn>>

(* ide_polling without: before a sector is written and after the flush.    *)
(* Errors are not looked at.                                               *)
PollOnly(t) ==
  /\ \/ In(t, "wpoll") /\ Status(t) # "busy" /\ To(t, AtaFlow["wpoll"])
     \/ In(t, "fpoll") /\ Status(t) # "busy" /\ Onward(t, xfer[t], 0)
  /\ UNCHANGED <<vars, drives, dev, ien, pend, irq, torn>>

Send(t) ==
  /\ In(t, "send")
  /\ dev' = [dev EXCEPT ![Chan(t)] = Busy("drq", TRUE, xfer[t].drive, Here(xfer[t]), 1)]
  /\ To(t, AtapiFlow["send"])
  /\ UNCHANGED <<vars, drives, ien, pend, irq, torn>>

(* wait_for_irq: the loop, and the store after it. *)
WaitIrq(t) ==
  /\ \/ irq /\ \E s \in {"wait", "wait2"} : In(t, s) /\ To(t, AtapiFlow[s]) /\ UNCHANGED irq
     \/ /\ \E s \in {"clear", "clear2"} : In(t, s) /\ To(t, AtapiFlow[s])
        /\ irq' = FALSE
  /\ UNCHANGED <<vars, drives, dev, ien, pend, torn>>

(* A sector goes through the data port; a device that does not ask for it  *)
(* takes nothing.                                                          *)
Move(t) ==
  /\ In(t, "move")
  /\ LET c == Chan(t)
         v == dev[c]
         pack == Drive(t).type = "atapi"
         x == [xfer[t] EXCEPT !.moved =
                 Append(@, IF v.phase = "drq" THEN <<v.drive, v.at>> ELSE NoX)]
         more == Len(x.moved) % x.each # 0
     IN  /\ dev' = IF v.phase # "drq" THEN dev
                   ELSE [dev EXCEPT ![c] =
                          IF v.left > 1 THEN Busy("drq", TRUE, v.drive, v.at + 1, v.left - 1)
                          ELSE IF pack \/ Writes(t) THEN Busy("idle", TRUE, v.drive, v.at, 0)
                          ELSE Still]
         /\ xfer' = [xfer EXCEPT ![t] =
              [x EXCEPT !.step = IF pack THEN AtapiFlow["move"]
                                 ELSE IF more THEN IF Writes(t) THEN "wpoll" ELSE "poll"
                                 ELSE IF Writes(t) THEN "flush" ELSE "done"]]
  /\ UNCHANGED <<vars, drives, ien, pend, irq, torn>>

(* The cache flush goes out whatever the device is doing. *)
Flush(t) ==
  /\ In(t, "flush")
  /\ dev' = [dev EXCEPT ![Chan(t)] = Busy("idle", TRUE, xfer[t].drive, 0, 0)]
  /\ To(t, "fpoll")
  /\ UNCHANGED <<vars, drives, ien, pend, irq, torn>>

Drain(t) ==
  /\ In(t, "drain") /\ Status(t) \notin {"busy", "drq"}
  /\ Onward(t, xfer[t], 0)
  /\ UNCHANGED <<vars, drives, dev, ien, pend, irq, torn>>

Finish(t) ==
  /\ In(t, "done")
  /\ xfer' = [xfer EXCEPT ![t] = IF @.op = "zero" THEN NoX ELSE Ended]
  /\ UNCHANGED <<vars, drives, dev, ien, pend, irq, torn>>

Transfer(t) ==
  \/ Command(t) \/ Packet(t) \/ Poll(t) \/ PollOnly(t) \/ Send(t) \/ WaitIrq(t) \/ Move(t)
  \/ Flush(t) \/ Drain(t) \/ Finish(t)

(* Calls of the lock between transfers.  What ata_lock guards never nests  *)
(* it and never sleeps inside; Nested and Nap are for a lock that guards   *)
(* no drives, as kbd_lock does.                                            *)
Free(t) == ~torn /\ xfer[t] \in {NoX, Ended}

Nested(t) ==
  /\ drives = <<>> /\ Free(t)
  /\ AcquireAgain(t) \/ ReleaseNested(t)
  /\ UNCHANGED avars
Nap(t) == drives = <<>> /\ Free(t) /\ BlockInside(t) /\ UNCHANGED avars
Take(t) == Free(t) /\ (AcquireFree(t) \/ AcquireHeld(t)) /\ UNCHANGED avars
Wake(t) == Free(t) /\ Resume(t) /\ UNCHANGED avars
Give(t) ==
  /\ Free(t) /\ ReleaseLast(t)
  /\ xfer' = [xfer EXCEPT ![t] = NoX]
  /\ UNCHANGED <<drives, dev, ien, pend, irq, torn>>
Stray(t) == ~torn /\ StrayWakeup(t) /\ UNCHANGED avars

ANext ==
  \/ Irq
  \/ \E c \in Channels : Device(c)
  \/ \E t \in Thread :
       \/ Begin(t) \/ Transfer(t)
       \/ Nested(t) \/ Nap(t) \/ Take(t) \/ Wake(t) \/ Give(t) \/ Stray(t)

ASpec == AInit /\ [][ANext]_all

(* A thread that is READY gets to run (ReadyRuns of module Sched), the     *)
(* device answers, and its interrupts are taken.  The owner releases as    *)
(* often as it acquires, for good sooner or later: ide_dev_read,           *)
(* ide_dev_write and keyboard_get_key release on every path and never hold *)
(* the lock across two calls.  An owner that waits for a key gets one.     *)
AFairness ==
  /\ WF_all(Irq) /\ \A c \in Channels : WF_all(Device(c))
  /\ \A t \in Thread :
       /\ WF_all(Transfer(t) \/ Wake(t))
       /\ SF_all(Free(t) /\ ReleaseNested(t) /\ UNCHANGED avars) /\ SF_all(Give(t))
       /\ WF_all(pc[t] = "in" /\ Stray(t))

AFairSpec == ASpec /\ AFairness
----------------------------------------------------------------------------
(* Whatever interrupts are left over from commands before, or come late,   *)
(* or twice: a transfer moves the sectors it was asked for, from its own   *)
(* drive and in order, and one that returns no error has moved them all.   *)
(* (Only as many as fit numsects; errors of a write are not reported, nor  *)
(* is that of a packet before the last: there a sector may be missing.)    *)
MovesItsSectors ==
  \A t \in Thread : (~torn /\ xfer[t] \notin {NoX, Ended}) =>
    LET x == xfer[t]
    IN  /\ \A k \in 1 .. Len(x.moved) : x.moved[k] \in {NoX, <<x.drive, x.lba + k - 1>>}
        /\ (x.step = "done" /\ x.ret = 0) => Len(x.moved) = x.n
        /\ (x.step = "done" /\ x.ret = 0 /\ x.op = "read" /\ x.n > 0) => x.moved[x.n] # NoX

(* No packet read waits for an interrupt that has been and gone, although  *)
(* irq_called is cleared after the wait and by the other channel's too:    *)
(* it has come, or the device is about to raise it, enabled.               *)
IrqComes ==
  \A t \in Thread : \A s \in {"wait", "wait2"} : In(t, s) =>
    LET v == dev[Chan(t)]
    IN  irq \/ pend \/ (v.phase = "busy" /\ v.rings /\ ien[Chan(t)])

(* Whoever waits for the lock gets it, with transfers inside it. *)
WaiterServed == \A t \in Thread : pc[t] = "waiting" ~> (pc[t] = "in" \/ torn)
=============================================================================
