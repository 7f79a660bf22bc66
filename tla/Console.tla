------------------------------ MODULE Console -------------------------------
(***************************************************************************)
(* The console: line editing and reading (kernel/console.c), the ring of   *)
(* output characters (kernel/uart.c), the interrupts of the serial port    *)
(* (kernel/trap.c, kernel/plic.c) and the spin locks with interrupts       *)
(* turned off (kernel/spinlock.c) that they rely on.  Every hart runs one  *)
(* process, which reads or writes the console, and on top of it, when      *)
(* interrupts are on, the interrupt handler.  The serial port and the PLIC *)
(* are modelled from how the driver uses them.                             *)
(***************************************************************************)
EXTENDS Integers, Sequences, SequencesExt

CONSTANTS
    Reader, Writer,      \* harts whose process reads, writes
    None,
    Char,                \* ordinary characters
    INPUT_BUF_SIZE, UART_TX_BUF_SIZE,
    UintMod,             \* cons.r, cons.w and cons.e count modulo this
    FIFO, RX,            \* characters that the transmitter, the receiver holds
    ReadSize,            \* bytes that a read asks for
    Loads                \* pairs: keys that are typed, bytes that a process writes

Newline == "newline"
Eof == "eof"
Return == "return"
Backspace == "backspace"
KillLine == "kill"
Key == Char \cup {Return, Eof, Backspace, KillLine}

Hart == Reader \cup Writer
Thread == Hart \X {"proc", "intr"}
Lock == {"cons", "tx"}

ASSUME ConsoleAssumption ==
    /\ None \notin Hart /\ Reader \cap Writer = {}
    /\ {INPUT_BUF_SIZE, UART_TX_BUF_SIZE, FIFO, ReadSize} \subseteq Nat \ {0}
    /\ Loads \subseteq Nat \X Nat
    /\ UintMod \in Nat /\ UintMod % INPUT_BUF_SIZE = 0 /\ UintMod > INPUT_BUF_SIZE

VARIABLES
    lock,               \* hart that holds cons.lock, uart_tx_lock
    sie, noff, intena,  \* interrupts of a hart, depth of push_off, state before it
    buf, r, w, e,       \* cons
    txq,                \* the ring between uart_tx_r and uart_tx_w
    fifo, rx,           \* the transmitter, and keys received
    sent,               \* bytes of write calls that left the transmitter
    pending, claimed,   \* the interrupt of the serial port
    pc, hand,           \* where a thread is; the character, or the echo, it holds
    left,               \* bytes that a write or read call still has to do
    killed,             \* readers that were killed
    panicked,
    load, keys          \* the load, and the keys typed so far

cpu == <<sie, noff, intena>>
cons == <<buf, r, w, e>>
port == <<fifo, rx, sent, pending, claimed>>
vars == <<lock, cpu, cons, txq, port, pc, hand, left, killed, panicked, load, keys>>

Init ==
    /\ lock = [l \in Lock |-> None]
    /\ sie = [h \in Hart |-> TRUE] /\ noff = [h \in Hart |-> 0] /\ intena = [h \in Hart |-> FALSE]
    /\ buf = [k \in 0 .. INPUT_BUF_SIZE - 1 |-> None] /\ r = 0 /\ w = 0 /\ e = 0
    /\ txq = <<>>
    /\ fifo = <<>> /\ rx = <<>> /\ sent = <<>> /\ pending = FALSE /\ claimed = FALSE
    /\ pc = [t \in Thread |-> IF t[2] = "proc" THEN "user" ELSE "none"]
    /\ hand = [t \in Thread |-> <<>>]
    /\ left = [h \in Hart |-> 0]
    /\ killed = {} /\ panicked = FALSE /\ load \in Loads /\ keys = 0

(* A thread runs unless the interrupt handler runs on its hart.            *)
At(t, label) ==
    /\ ~panicked /\ pc[t] = label
    /\ t[2] = "proc" => pc[<<t[1], "intr">>] = "none"
Goto(t, label) == pc' = [pc EXCEPT ![t] = label]

----------------------------------------------------------------------------
(* Spin locks.                                                             *)

PushOff(h) ==
    /\ intena' = IF noff[h] = 0 THEN [intena EXCEPT ![h] = sie[h]] ELSE intena
    /\ sie' = [sie EXCEPT ![h] = FALSE]
    /\ noff' = [noff EXCEPT ![h] = @ + 1]

(* pop_off at this depth turns interrupts on if they were on at first;     *)
(* intena has no meaning, and is FALSE here, at depth 0.                   *)
RestoreAlways(h, depth) == intena[h]
Restore(h, depth) == depth = 1 /\ intena[h]

PopOff(h) ==
    /\ noff' = [noff EXCEPT ![h] = @ - 1]
    /\ sie' = [sie EXCEPT ![h] = Restore(h, noff[h])]
    /\ intena' = [intena EXCEPT ![h] = @ /\ noff[h] > 1]

(* push_off and pop_off around a wakeup, which takes the lock of every     *)
(* process for a moment.                                                   *)
PushPop(h) ==
    /\ sie' = [sie EXCEPT ![h] = Restore(h, noff[h] + 1)]
    /\ UNCHANGED <<noff, intena>>

(* acquire: interrupts are off while it spins.                             *)
Acquire(t, label) == PushOff(t[1]) /\ Goto(t, label)

Awake(t) ==
    /\ At(t, "awake")
    /\ Acquire(t, IF t[1] \in Reader THEN "cons_spin" ELSE "tx_spin")
    /\ UNCHANGED <<lock, cons, txq, port, hand, left, killed, panicked, load, keys>>

Holding(t, l) == lock[l] = t[1]

AcquireSpin(t, l) ==
    /\ At(t, IF l = "cons" THEN "cons_spin" ELSE "tx_spin")
    /\ IF Holding(t, l) THEN panicked' = TRUE /\ UNCHANGED <<lock, pc>>
       ELSE /\ lock[l] = None
            /\ lock' = [lock EXCEPT ![l] = t[1]]
            /\ Goto(t, IF l = "cons" THEN (IF t[2] = "intr" THEN "edit" ELSE "read")
                       ELSE IF t[2] = "intr" THEN "start" ELSE "put")
            /\ UNCHANGED panicked
    /\ UNCHANGED <<cpu, cons, txq, port, hand, left, killed, load, keys>>

(* release, and what the thread does next.                                 *)
Release(t, l) == lock' = [lock EXCEPT ![l] = None] /\ PopOff(t[1])

WakeNone(f, H) == f
Wake(f, H) == [t \in Thread |-> IF f[t] = "asleep" /\ t[1] \in H THEN "awake" ELSE f[t]]

----------------------------------------------------------------------------
(* consoleread *)

Typed == (e - r) % UintMod

ReadCall(h) ==
    /\ At(<<h, "proc">>, "user") /\ h \notin killed
    /\ left' = [left EXCEPT ![h] = ReadSize]
    /\ Acquire(<<h, "proc">>, "cons_spin")
    /\ UNCHANGED <<lock, cons, txq, port, hand, killed, panicked, load, keys>>

ReadReturn(h) ==
    /\ Release(<<h, "proc">>, "cons")
    /\ left' = [left EXCEPT ![h] = 0]
    /\ Goto(<<h, "proc">>, "user")

(* Nothing to read: sleep gives up the lock, and the hart.                 *)
ReadSleeps(h) ==
    /\ At(<<h, "proc">>, "read") /\ left[h] > 0 /\ r = w
    /\ IF h \in killed THEN ReadReturn(h)
       ELSE /\ Release(<<h, "proc">>, "cons")
            /\ Goto(<<h, "proc">>, "asleep")
            /\ UNCHANGED left
    /\ UNCHANGED <<cons, txq, port, hand, killed, panicked, load, keys>>

(* One character.  An end-of-file that does not come first is kept for the *)
(* next call; the copy to the user may fail.                               *)
KeepEof(h) == left[h] < ReadSize

ReadChar(h) ==
    /\ At(<<h, "proc">>, "read") /\ left[h] > 0 /\ r # w
    /\ LET c == buf[r % INPUT_BUF_SIZE]
       IN  /\ r' = IF c = Eof /\ KeepEof(h) THEN r ELSE (r + 1) % UintMod
           /\ \/ /\ c \notin {Eof, Newline} /\ left[h] > 1
                 /\ left' = [left EXCEPT ![h] = @ - 1]
                 /\ UNCHANGED <<lock, cpu, pc>>
              \/ /\ c \in {Eof, Newline} \/ left[h] = 1
                 /\ ReadReturn(h)
              \/ c \notin {Eof, Newline} /\ left[h] > 1 /\ ReadReturn(h)
    /\ UNCHANGED <<buf, w, e, txq, port, hand, killed, panicked, load, keys>>

(* kill wakes a process that sleeps.                                       *)
KillReader(h) ==
    /\ ~panicked /\ h \notin killed
    /\ killed' = killed \cup {h}
    /\ pc' = Wake(pc, {h})
    /\ UNCHANGED <<lock, cpu, cons, txq, port, hand, left, panicked, load, keys>>

----------------------------------------------------------------------------
(* consoleintr, with cons.lock held; hand is the character, then what is   *)
(* to be echoed.                                                           *)

Echo == <<None, 0>>
Echoes(n) == [k \in 1 .. n |-> Echo]

(* Only the line that is being typed can be erased.                        *)
NotEmpty == e # r
Erasable == e # w

Stored(c) == IF c = Return THEN Newline ELSE c

Edit(t) ==
    /\ At(t, "edit")
    /\ LET c == Stored(Head(hand[t]))
       IN  \/ /\ c = KillLine
              /\ e' = w
              /\ hand' = [hand EXCEPT ![t] = Echoes((e - w) % UintMod)]
              /\ Goto(t, "echo") /\ UNCHANGED <<buf, w, cpu>>
           \/ /\ c = Backspace
              /\ e' = IF Erasable THEN (e - 1) % UintMod ELSE e
              /\ hand' = [hand EXCEPT ![t] = Echoes(IF Erasable THEN 1 ELSE 0)]
              /\ Goto(t, "echo") /\ UNCHANGED <<buf, w, cpu>>
           \/ /\ c \notin {KillLine, Backspace} /\ Typed >= INPUT_BUF_SIZE
              /\ hand' = [hand EXCEPT ![t] = <<>>]
              /\ Goto(t, "echo") /\ UNCHANGED <<buf, w, e, cpu>>
           \/ /\ c \notin {KillLine, Backspace} /\ Typed < INPUT_BUF_SIZE
              /\ buf' = [buf EXCEPT ![e % INPUT_BUF_SIZE] = c]
              /\ e' = (e + 1) % UintMod
              /\ hand' = [hand EXCEPT ![t] = Echoes(1)]
              /\ IF c \in {Newline, Eof} \/ Typed + 1 = INPUT_BUF_SIZE
                   THEN /\ w' = e'
                        /\ pc' = [Wake(pc, Reader) EXCEPT ![t] = "echo"]
                        /\ PushPop(t[1])
                   ELSE Goto(t, "echo") /\ UNCHANGED <<w, cpu>>
    /\ UNCHANGED <<lock, r, txq, port, left, killed, panicked, load, keys>>

(* uartputc_sync spins until the transmitter is empty.                     *)
Idle == fifo = <<>>

EchoWait(t) ==
    /\ At(t, "echo") /\ hand[t] # <<>> /\ Idle
    /\ Goto(t, "echo_w")
    /\ UNCHANGED <<lock, cpu, cons, txq, port, hand, left, killed, panicked, load, keys>>

(* A character that finds the transmitter full is lost.                    *)
TransmitOne(x) == fifo' = <<x>>
Transmit(x) == fifo' = IF Len(fifo) < FIFO THEN Append(fifo, x) ELSE fifo

EchoWrite(t) ==
    /\ At(t, "echo_w")
    /\ Transmit(Head(hand[t]))
    /\ hand' = [hand EXCEPT ![t] = Tail(@)]
    /\ Goto(t, "echo")
    /\ UNCHANGED <<lock, cpu, cons, txq, rx, sent, pending, claimed, left, killed, panicked, load, keys>>

EditEnd(t) ==
    /\ At(t, "echo") /\ hand[t] = <<>>
    /\ Release(t, "cons")
    /\ Goto(t, "getc")
    /\ UNCHANGED <<cons, txq, port, hand, left, killed, panicked, load, keys>>

----------------------------------------------------------------------------
(* consolewrite and uartputc; a byte is its writer and its number.         *)

WriteCall(h) ==
    /\ At(<<h, "proc">>, "user") /\ left[h] < load[2]
    /\ Acquire(<<h, "proc">>, "tx_spin")
    /\ UNCHANGED <<lock, cons, txq, port, hand, left, killed, panicked, load, keys>>

Full == Len(txq) = UART_TX_BUF_SIZE

PutSleeps(h) ==
    /\ At(<<h, "proc">>, "put") /\ Full
    /\ Release(<<h, "proc">>, "tx")
    /\ Goto(<<h, "proc">>, "asleep")
    /\ UNCHANGED <<cons, txq, port, hand, left, killed, panicked, load, keys>>

Put(h) ==
    /\ At(<<h, "proc">>, "put") /\ ~Full
    /\ txq' = Append(txq, <<h, left[h] + 1>>)
    /\ left' = [left EXCEPT ![h] = @ + 1]
    /\ Goto(<<h, "proc">>, "start")
    /\ UNCHANGED <<lock, cpu, cons, port, hand, killed, panicked, load, keys>>

(* uartstart, from both halves, with uart_tx_lock held.                    *)
StartSend(t) ==
    /\ At(t, "start") /\ txq # <<>> /\ Idle
    /\ hand' = [hand EXCEPT ![t] = <<Head(txq)>>]
    /\ txq' = Tail(txq)
    /\ pc' = [Wake(pc, Writer) EXCEPT ![t] = "start_w"]
    /\ PushPop(t[1])
    /\ UNCHANGED <<lock, cons, port, left, killed, panicked, load, keys>>

StartWrite(t) ==
    /\ At(t, "start_w")
    /\ Transmit(Head(hand[t]))
    /\ hand' = [hand EXCEPT ![t] = <<>>]
    /\ Goto(t, "start")
    /\ UNCHANGED <<lock, cpu, cons, txq, rx, sent, pending, claimed, left, killed, panicked, load, keys>>

StartEnd(h) ==
    LET t == <<h, "proc">>
    IN  /\ At(t, "start") /\ (txq = <<>> \/ ~Idle)
        /\ Release(t, "tx")
        /\ Goto(t, "user")
        /\ UNCHANGED <<cons, txq, port, hand, left, killed, panicked, load, keys>>

----------------------------------------------------------------------------
(* kerneltrap, devintr and uartintr.                                       *)

(* plic_claim: one hart gets the interrupt, with its interrupts off.       *)
Interrupt(h) ==
    /\ At(<<h, "intr">>, "none") /\ sie[h]
    /\ pending /\ ~claimed
    /\ pending' = FALSE /\ claimed' = TRUE
    /\ sie' = [sie EXCEPT ![h] = FALSE]
    /\ Goto(<<h, "intr">>, "getc")
    /\ UNCHANGED <<lock, noff, intena, cons, txq, fifo, rx, sent, hand, left, killed, panicked, load, keys>>

Getc(h) ==
    LET t == <<h, "intr">>
    IN  /\ At(t, "getc")
        /\ IF rx = <<>> THEN Acquire(t, "tx_spin") /\ UNCHANGED <<hand, rx>>
           ELSE /\ hand' = [hand EXCEPT ![t] = <<Head(rx)>>]
                /\ rx' = Tail(rx)
                /\ Acquire(t, "cons_spin")
        /\ UNCHANGED <<lock, cons, txq, fifo, sent, pending, claimed, left, killed, panicked, load, keys>>

(* The end of uartintr, plic_complete, and the return to what was          *)
(* interrupted, which had interrupts on.                                   *)
Complete(h) ==
    LET t == <<h, "intr">>
    IN  /\ At(t, "start") /\ (txq = <<>> \/ ~Idle)
        /\ lock' = [lock EXCEPT !["tx"] = None]
        /\ noff' = [noff EXCEPT ![h] = @ - 1]
        /\ sie' = [sie EXCEPT ![h] = TRUE]
        /\ claimed' = FALSE
        /\ Goto(t, "none")
        /\ UNCHANGED <<intena, cons, txq, fifo, rx, sent, pending, hand, left, killed, panicked, load, keys>>

----------------------------------------------------------------------------
(* The serial port: a key arrives, a character leaves.                     *)

Type(c) ==
    /\ keys < load[1] /\ keys' = keys + 1
    /\ Len(rx) < RX /\ rx' = Append(rx, c)
    /\ pending' = TRUE
    /\ UNCHANGED <<lock, cpu, cons, txq, fifo, sent, claimed, pc, hand, left, killed, panicked, load>>

Send ==
    /\ fifo # <<>>
    /\ fifo' = Tail(fifo)
    /\ sent' = IF Head(fifo) = Echo THEN sent ELSE Append(sent, Head(fifo))
    /\ pending' = (pending \/ Len(fifo) = 1)
    /\ UNCHANGED <<lock, cpu, cons, txq, rx, claimed, pc, hand, left, killed, panicked, load, keys>>

Step(t) ==
    \/ Awake(t) \/ Edit(t) \/ EchoWait(t) \/ EchoWrite(t) \/ EditEnd(t)
    \/ StartSend(t) \/ StartWrite(t)
    \/ \E l \in Lock : AcquireSpin(t, l)
HartStep(h) ==
    \/ Getc(h) \/ StartEnd(h) \/ Complete(h)
    \/ h \in Reader /\ (ReadCall(h) \/ ReadSleeps(h) \/ ReadChar(h))
    \/ h \in Writer /\ (WriteCall(h) \/ PutSleeps(h) \/ Put(h))

Next ==
    \/ \E t \in Thread : Step(t)
    \/ \E h \in Hart : HartStep(h) \/ Interrupt(h)
    \/ \E h \in Reader : KillReader(h)
    \/ \E c \in Key : Type(c)
    \/ Send

Spec == Init /\ [][Next]_vars

(* Every hart goes on, an interrupt is taken by a hart that can take it,   *)
(* and the transmitter works.  Nobody has to type.                         *)
FairSpec ==
    /\ Spec
    /\ \A t \in Thread : WF_vars(Step(t))
    /\ \A h \in Hart : WF_vars(HartStep(h))
    /\ WF_vars(\E h \in Hart : Interrupt(h))
    /\ WF_vars(Send)

----------------------------------------------------------------------------
(* Properties.                                                             *)

Input(from, n) == [k \in 1 .. n |-> buf[(from + k - 1) % INPUT_BUF_SIZE]]

T == INSTANCE Terminal
       WITH Char <- Char \cup {Newline, Eof}, Capacity <- INPUT_BUF_SIZE,
            ready <- Input(r, (w - r) % UintMod), line <- Input(w, (e - w) % UintMod)

(* Input is what was typed, edited line by line: an interrupt at any       *)
(* moment of a read does not lose, repeat or edit finished input, and a    *)
(* buffer full of an unfinished line can be read.                          *)
ImplementsTerminal == T!Spec

(* Output of a process comes out once and in order, although echoed        *)
(* characters go to the transmitter without uart_tx_lock.                  *)
InHand == IF \E t \in Thread : pc[t] = "start_w"
            THEN hand[CHOOSE t \in Thread : pc[t] = "start_w"] ELSE <<>>
Output == sent \o fifo \o InHand \o txq
OutputInOrder ==
    \A h \in Writer :
        SelectSeq(Output, LAMBDA x : x[1] = h) = [k \in 1 .. left[h] |-> <<h, k>>]

(* No interrupt handler asks for a lock that the code it interrupted       *)
(* holds: interrupts stay off until the outermost lock is released.        *)
NoSelfDeadlock == ~panicked

(* Everything that is written leaves the transmitter, and input that was   *)
(* finished is read.                                                       *)
Progress ==
    /\ \A h \in Writer : <>[](left[h] = load[2] /\ txq = <<>>)
    /\ (r # w) ~> (r = w \/ killed # {})
=============================================================================
