------------------------------- MODULE SdCard -------------------------------
(***************************************************************************)
(* The PicoCalc's SD card in SPI mode (picocalc-board/src/sdcard.rs), the  *)
(* wire that tells it of its chip select (sd_wire.rs), and the emulated    *)
(* SPI controller with its two FIFOs (rp2040-emu/src/peripherals/spi.rs),  *)
(* which exchanges words with the card at the tail of a quantum only.      *)
(*                                                                         *)
(* The driver is firmware: it follows the exchanges in the tests of        *)
(* sd_wire.rs and the waits that bus/mod.rs ascribes to the pico-sdk.  It  *)
(* may time out of any poll, and the emulator may be reset at any point;   *)
(* the card stays on the board and keeps what it was doing.                *)
(*                                                                         *)
(* Bytes have the code's values.  The commands are those of bring-up and   *)
(* block transfer; CMD8, CMD16 and CMD58 would only add longer replies.    *)
(***************************************************************************)
EXTENDS Integers, Sequences

CONSTANTS
    Depth,          \* SSP_FIFO_DEPTH
    ArgBytes,       \* argument bytes of a frame; all but the last are zero
    BlockSize,
    NBlocks,        \* blocks of the card
    Addresses,      \* the blocks firmware asks for
    Contents,       \* the blocks firmware writes
    Busy,           \* polls of ACMD41 that are answered busy
    MaxOps, MaxTimeouts, MaxResets      \* bounds

Byte == 0 .. 255
Block == [1 .. BlockSize -> Byte]

ASSUME SdAssumption ==
    /\ Depth \in Nat \ {0} /\ ArgBytes \in Nat \ {0} /\ BlockSize \in Nat \ {0}
    /\ NBlocks \in Nat \ {0} /\ Addresses \subseteq Byte /\ Contents \subseteq Block
    /\ Busy \in Nat /\ MaxOps \in Nat /\ MaxTimeouts \in Nat /\ MaxResets \in Nat

IDLE == 255
R1_IDLE == 1
R1_READY == 0
TOKEN_START == 254
DATA_ACCEPTED == 5

VARIABLES
    card,       \* SdCard
    cs_high,    \* the chip select the wire saw last
    misframed,  \* ghost: a word met another chip select than its own
    tx, rx,     \* the controller's FIFOs; a word carries, as a ghost, the
                \* chip select it was written under
    cs,         \* the pin, TRUE for high
    pc, step,   \* where the driver is in an exchange and in its bring-up
    cmd, block, data,       \* the command it is about
    out, got, keep,         \* bytes to write, bytes read, and whether it
                            \* reads what comes back or throws it away
    ops, timeouts, resets,
    may         \* ghost: what each block of the card may hold

driverVars == <<pc, step, cmd, block, data, out, got, keep, may>>
bounds == <<ops, timeouts, resets>>
wireVars == <<card, cs_high, misframed>>
vars == <<wireVars, tx, rx, cs, driverVars, bounds>>

Phase == {"Idle", "Command", "Reply", "AwaitWriteToken", "WriteData", "DataResponse"}

TypeOK ==
    /\ card \in [phase : Phase, index : 0 .. 63, taken : Nat, arg : Byte,
                 reply : Seq(Byte), app_cmd_pending : BOOLEAN,
                 acmd41_busy_left : 0 .. Busy, initialised : BOOLEAN,
                 write_block : Byte, write_pending : BOOLEAN,
                 write_buf : Seq(Byte), blocks : [0 .. NBlocks - 1 -> Block]]
    /\ Len(card.write_buf) <= BlockSize
    /\ cs_high \in BOOLEAN /\ cs \in BOOLEAN /\ misframed \in BOOLEAN
    /\ tx \in Seq([byte : Byte, cs : BOOLEAN]) /\ Len(tx) <= Depth
    /\ rx \in Seq(Byte) /\ Len(rx) <= Depth
    /\ out \in Seq(Byte) /\ got \in Seq(Byte) /\ keep \in BOOLEAN
    /\ may \in [0 .. NBlocks - 1 -> SUBSET Block]

NoBlock == [i \in 1 .. BlockSize |-> 0]

Init ==
    /\ card = [phase |-> "Idle", index |-> 0, taken |-> 0, arg |-> 0,
               reply |-> <<>>, app_cmd_pending |-> FALSE,
               acmd41_busy_left |-> Busy, initialised |-> FALSE,
               write_block |-> 0, write_pending |-> FALSE, write_buf |-> <<>>,
               blocks |-> [b \in 0 .. NBlocks - 1 |-> NoBlock]]
    /\ cs_high = TRUE /\ misframed = FALSE
    /\ tx = <<>> /\ rx = <<>> /\ cs = FALSE
    /\ pc = "boot" /\ step = "CMD0" /\ cmd = 0 /\ block = 0 /\ data = NoBlock
    /\ out = <<>> /\ got = <<>> /\ keep = FALSE
    /\ ops = 0 /\ timeouts = 0 /\ resets = 0
    /\ may = [b \in 0 .. NBlocks - 1 |-> {NoBlock}]

-----------------------------------------------------------------------------
(* The card.                                                               *)

\* Fault: a release ends what the card sends but not what it takes.
Deselect_KeepsTaking(c) ==
    IF c.phase \in {"Command", "WriteData"} THEN c
    ELSE [c EXCEPT !.phase = "Idle", !.reply = <<>>]

\* deselect: the write that was announced stays pending, and so does CMD55.
Deselect(c) == [c EXCEPT !.phase = "Idle", !.reply = <<>>, !.write_buf = <<>>]

\* A block that is not there is not sent: the host polls in vain.
BlockRead(c) ==
    IF c.arg < NBlocks
    THEN <<TOKEN_START>> \o c.blocks[c.arg] \o <<IDLE, IDLE>>
    ELSE <<>>

\* commit_write: a block that is not there is not stored.
CommitWrite(c) ==
    [c EXCEPT !.blocks = IF c.write_block < NBlocks
                         THEN [@ EXCEPT ![c.write_block] = c.write_buf] ELSE @,
              !.write_buf = <<>>, !.write_pending = FALSE]

\* Fault: an announcement that was never followed up blocks the next.
Announced_Once(c) ==
    IF c.write_pending THEN c
    ELSE [c EXCEPT !.write_block = c.arg, !.write_pending = TRUE]

\* CMD24: the block that follows goes here.
Announced(c) == [c EXCEPT !.write_block = c.arg, !.write_pending = TRUE]

\* begin_reply: CMD55 makes the next command an ACMD, whichever it is, and
\* an ACMD other than 41 is answered READY and has no effect.
BeginReply(c) ==
    LET Answer(d, bytes) ==
            [d EXCEPT !.phase = "Reply", !.reply = <<IDLE>> \o bytes]
        taken == [c EXCEPT !.app_cmd_pending = FALSE]
    IN  CASE c.app_cmd_pending /\ c.index = 41 /\ c.acmd41_busy_left > 0 ->
                 Answer([taken EXCEPT !.acmd41_busy_left = @ - 1], <<R1_IDLE>>)
          [] c.app_cmd_pending /\ c.index = 41 /\ c.acmd41_busy_left = 0 ->
                 Answer([taken EXCEPT !.initialised = TRUE], <<R1_READY>>)
          [] c.app_cmd_pending /\ c.index # 41 -> Answer(taken, <<R1_READY>>)
          [] ~c.app_cmd_pending /\ c.index = 0 -> Answer(taken, <<R1_IDLE>>)
          [] ~c.app_cmd_pending /\ c.index = 17 ->
                 Answer(taken, <<R1_READY>> \o BlockRead(c))
          [] ~c.app_cmd_pending /\ c.index = 24 ->
                 Answer(Announced(taken), <<R1_READY>>)
          [] ~c.app_cmd_pending /\ c.index = 55 ->
                 Answer([taken EXCEPT !.app_cmd_pending = TRUE],
                        <<IF c.initialised THEN R1_READY ELSE R1_IDLE>>)
          [] OTHER -> Answer(taken, <<R1_READY>>)

IsFrameStart(byte) == byte \div 64 = 1

\* transfer: what a byte makes of the card.  The byte after the argument is
\* the checksum, and so are the two after a block.
Taken(c, byte) ==
    CASE c.phase = "Idle" ->
             IF IsFrameStart(byte)
             THEN [c EXCEPT !.phase = "Command", !.index = byte % 64, !.taken = 0]
             ELSE c
      [] c.phase = "Command" ->
             IF c.taken < ArgBytes
             THEN [c EXCEPT !.arg = byte, !.taken = @ + 1] ELSE BeginReply(c)
      [] c.phase = "Reply" ->
             [c EXCEPT !.reply = Tail(@),
                       !.phase = IF Len(c.reply) > 1 THEN "Reply"
                                 ELSE IF c.write_pending THEN "AwaitWriteToken"
                                 ELSE "Idle"]
      [] c.phase = "AwaitWriteToken" ->
             IF byte = TOKEN_START
             THEN [c EXCEPT !.phase = "WriteData", !.taken = 0, !.write_buf = <<>>]
             ELSE c
      [] c.phase = "WriteData" ->
             IF c.taken < BlockSize
             THEN [c EXCEPT !.write_buf = Append(@, byte), !.taken = @ + 1]
             ELSE IF c.taken = BlockSize
             THEN [c EXCEPT !.taken = @ + 1]
             ELSE [CommitWrite(c) EXCEPT !.phase = "DataResponse"]
      [] c.phase = "DataResponse" -> [c EXCEPT !.phase = "Idle"]

\* transfer: what the card answers in that word's time.
Miso(c) ==
    CASE c.phase = "Reply" -> Head(c.reply)
      [] c.phase = "DataResponse" -> DATA_ACCEPTED
      [] OTHER -> IDLE

-----------------------------------------------------------------------------
(* The wire and the tail of a quantum (tick_peripherals).                  *)

\* observe_pins: only the rising edge ends an exchange.
ObservePins(w, level) ==
    [w EXCEPT !.card = IF level /\ ~w.cs_high THEN Deselect(@) ELSE @,
              !.cs_high = level]

\* One word out of the transmit FIFO; the answer is lost if the receive
\* FIFO is full.
Exchange(w, word) ==
    [w EXCEPT !.card = Taken(@, word.byte),
              !.rx = IF Len(@) < Depth THEN Append(@, Miso(w.card)) ELSE @,
              !.misframed = @ \/ word.cs # w.cs_high]

Drained(w, n) ==
    LET after[i \in 0 .. n] == IF i = 0 THEN w ELSE Exchange(after[i - 1], tx[i])
    IN  after[n]

Wire == [card |-> card, cs_high |-> cs_high, rx |-> rx, misframed |-> misframed]

\* Fault: the pins are sampled after the words went out.
Ticked_SampledLate(n) == ObservePins(Drained(Wire, n), cs)

Ticked(n) == Drained(ObservePins(Wire, cs), n)

\* The quantum was long enough for n words.
EndOfQuantum ==
    \E n \in 0 .. Len(tx) :
        /\ LET w == Ticked(n)
           IN  /\ card' = w.card /\ cs_high' = w.cs_high
               /\ rx' = w.rx /\ misframed' = w.misframed
        /\ tx' = SubSeq(tx, n + 1, Len(tx))
        /\ UNCHANGED <<cs, driverVars, bounds>>

-----------------------------------------------------------------------------
(* The driver's accesses to the controller.                                *)

\* spi_write_blocking fills the transmit FIFO and throws away what came back
\* at the end; spi_read_blocking never has more words out than fit.
Push ==
    /\ out # <<>> /\ Len(tx) < Depth
    /\ keep => Len(tx) + Len(rx) < Depth
    /\ tx' = Append(tx, [byte |-> Head(out), cs |-> cs])
    /\ out' = Tail(out)
    /\ UNCHANGED <<wireVars, rx, cs, pc, step, cmd, block, data, got, keep, may,
                   bounds>>

Pop ==
    /\ rx # <<>>
    /\ keep \/ (out = <<>> /\ tx = <<>>)
    /\ rx' = Tail(rx)
    /\ got' = IF keep THEN Append(got, Head(rx)) ELSE got
    /\ UNCHANGED <<wireVars, tx, cs, pc, step, cmd, block, data, out, keep, may,
                   bounds>>

\* Everything went out (BSY is clear), and what came back was taken.
Exchanged == out = <<>> /\ tx = <<>> /\ rx = <<>>

-----------------------------------------------------------------------------
(* The driver's exchanges.                                                 *)

Stage(at, bytes, reads) == pc' = at /\ out' = bytes /\ keep' = reads /\ got' = <<>>
Poll(at) == Stage(at, <<IDLE>>, TRUE)

\* The end of an exchange: the chip select goes up and the card gets a word
\* to see it by.
Release == cs' = TRUE /\ Stage("released", <<IDLE>>, FALSE)

ReleaseWith(s) ==
    /\ Release /\ step' = s
    /\ UNCHANGED <<wireVars, tx, rx, cmd, block, data, may, bounds>>

\* Out of reset the pin is made an output, high, and the card gets clocks.
Boot ==
    /\ pc = "boot" /\ ReleaseWith("CMD0")

Frame(i, b) == <<64 + i>> \o [k \in 1 .. ArgBytes |-> IF k = ArgBytes THEN b ELSE 0]
                          \o <<149>>

Send(i, b) ==
    /\ pc = "released" /\ Exchanged
    /\ cs' = FALSE
    /\ cmd' = i /\ block' = b
    /\ Stage("sent", Frame(i, b), FALSE)
    /\ UNCHANGED <<wireVars, tx, rx, step, timeouts, resets>>

BringUp ==
    /\ \/ step = "CMD0" /\ Send(0, 0)
       \/ step = "CMD55" /\ Send(55, 0)
       \/ step = "ACMD41" /\ Send(41, 0)
    /\ UNCHANGED <<data, may, ops>>

\* What is written may be found on the card from now on, whole, even if the
\* driver never learns that it was stored.
Operate ==
    /\ step = "ready" /\ ops < MaxOps /\ ops' = ops + 1
    /\ \E b \in Addresses :
          \/ Send(17, b) /\ UNCHANGED <<data, may>>
          \/ \E d \in Contents :
                /\ Send(24, b) /\ data' = d
                /\ may' = [a \in DOMAIN may |->
                              IF a = b THEN may[a] \cup {d} ELSE may[a]]

Sent ==
    /\ pc = "sent" /\ Exchanged
    /\ Poll("r1")
    /\ UNCHANGED <<wireVars, tx, rx, cs, step, cmd, block, data, may, bounds>>

\* A byte with bit 7 clear is the response.
Polled == Exchanged /\ got # <<>>
Answered == pc = "r1" /\ Polled /\ got[1] < 128

PollAgain ==
    /\ Polled
    /\ \/ pc = "r1" /\ got[1] >= 128
       \/ pc = "token" /\ got[1] # TOKEN_START
    /\ Poll(pc)
    /\ UNCHANGED <<wireVars, tx, rx, cs, step, cmd, block, data, may, bounds>>

BringUpAnswered ==
    /\ Answered
    /\ \/ cmd = 0 /\ ReleaseWith(IF got[1] = R1_IDLE THEN "CMD55" ELSE "CMD0")
       \/ cmd = 55 /\ ReleaseWith("ACMD41")
       \/ cmd = 41 /\ ReleaseWith(IF got[1] = R1_READY THEN "ready" ELSE "CMD55")

\* The card answers READY to whatever it is asked but to CMD0 and ACMD41.
BlockAnswered ==
    /\ Answered /\ got[1] = R1_READY
    /\ \/ cmd = 17 /\ Poll("token")
       \/ cmd = 24 /\ Stage("block", <<TOKEN_START>> \o data \o <<IDLE, IDLE>>, FALSE)
    /\ UNCHANGED <<wireVars, tx, rx, cs, step, cmd, block, data, may, bounds>>

TokenSeen ==
    /\ pc = "token" /\ Polled /\ got[1] = TOKEN_START
    /\ Stage("data", [k \in 1 .. BlockSize + 2 |-> IDLE], TRUE)
    /\ UNCHANGED <<wireVars, tx, rx, cs, step, cmd, block, data, may, bounds>>

ReadDone == pc = "data" /\ Exchanged
BlockGot == SubSeq(got, 1, BlockSize)

\* From now on the block is what was read.
Resolve(b, d) == may' = [a \in DOMAIN may |-> IF a = b THEN {d} ELSE may[a]]

EndRead ==
    /\ ReadDone
    /\ Release /\ Resolve(block, BlockGot)
    /\ UNCHANGED <<wireVars, tx, rx, step, cmd, block, data, bounds>>

BlockSent ==
    /\ pc = "block" /\ Exchanged
    /\ Poll("response")
    /\ UNCHANGED <<wireVars, tx, rx, cs, step, cmd, block, data, may, bounds>>

EndWrite ==
    /\ pc = "response" /\ Polled
    /\ Release
    /\ IF got[1] % 32 = DATA_ACCEPTED THEN Resolve(block, data) ELSE UNCHANGED may
    /\ UNCHANGED <<wireVars, tx, rx, step, cmd, block, data, bounds>>

\* The driver gives up between two polls; a bring-up starts over.
TimeOut ==
    /\ pc \in {"r1", "token"} /\ Exchanged
    /\ timeouts < MaxTimeouts /\ timeouts' = timeouts + 1
    /\ Release /\ step' = IF step = "ready" THEN step ELSE "CMD0"
    /\ UNCHANGED <<wireVars, tx, rx, cmd, block, data, may, ops, resets>>

\* Emulator::reset, at any point of the firmware: the controller forgets its
\* words and the pins go low, while the card and its wire stay as they are.
Reset ==
    /\ resets < MaxResets /\ resets' = resets + 1
    /\ tx' = <<>> /\ rx' = <<>> /\ cs' = FALSE
    /\ pc' = "boot" /\ out' = <<>> /\ got' = <<>> /\ keep' = FALSE
    /\ step' = "CMD0"
    /\ UNCHANGED <<wireVars, cmd, block, data, may, ops, timeouts>>

-----------------------------------------------------------------------------
Driver ==
    \/ Push \/ Pop \/ Boot \/ BringUp \/ Sent \/ PollAgain \/ BringUpAnswered
    \/ BlockAnswered \/ TokenSeen \/ EndRead \/ BlockSent \/ EndWrite

Next == Driver \/ Operate \/ TimeOut \/ Reset \/ EndOfQuantum

Spec == Init /\ [][Next]_vars

\* The driver goes on, and a quantum's tail drains a controller that has
\* words: with one in its FIFO the step takes the slow path.
FairSpec == Spec /\ WF_vars(Driver) /\ WF_vars(tx # <<>> /\ EndOfQuantum)

-----------------------------------------------------------------------------
(* Properties.                                                             *)

\* However long a quantum is, each word meets the chip select the driver
\* wrote it under, because the pins are sampled before the words go out and
\* the driver waits for BSY before it moves the pin (tick_peripherals).
FramedByItsLines == ~misframed

\* What a completed read returns is what was last accepted for that block,
\* or a later write that was cut short, and never a mix: whatever exchange
\* was abandoned, at whatever byte, and whether or not the chip was reset.
ReadsWhatWasWritten ==
    ReadDone /\ block < NBlocks => BlockGot \in may[block]

\* The driver is served again after every exchange, those it abandoned and
\* those a reset cut short included, unless it reads a block the card does
\* not have: the flags that a deselect leaves behind wear off.
Served == step = "ready" /\ pc = "released"
OperationsReturn == TRUE ~> Served \/ (cmd = 17 /\ block >= NBlocks)
=============================================================================
