----------------------------- MODULE SdCardProofs -----------------------------
(***************************************************************************)
(* Proofs about SdCard for every depth of the FIFOs, number and size of    *)
(* blocks, length of a quantum and bound on the traffic.                   *)
(*                                                                         *)
(* The argument follows an exchange.  At each stage of one the driver      *)
(* sends a known string of bytes, Sending; its last part is still in the   *)
(* FIFO, and Gone counts the bytes before that (QueueInv).  StageInv says  *)
(* where those have led the card: how far into a frame, a reply or a block *)
(* it is, and that what came back is the answer as far as it goes.  A step *)
(* of the driver starts a string when the one before is out; a quantum     *)
(* that drains the FIFO takes words off it, one by one.                    *)
(***************************************************************************)
EXTENDS SdCard, SequenceTheorems, WellFoundedInduction, TLAPS

-----------------------------------------------------------------------------
(* A drained controller, word by word.  Drained is a recursive function,   *)
(* and WordByWord stands for the induction over the words.                 *)

\* From the well-foundedness of < on the natural numbers.
LEMMA LeastNatural ==
    ASSUME NEW S \in SUBSET Nat, S # {}
    PROVE  \E x \in S : \A y \in S : x =< y
<1> DEFINE R == OpToRel(<, Nat)
<1>1. PICK x \in S : \A y \in S : ~(<<y, x>> \in R)
  BY NatLessThanWellFounded, WFMin, S # {}
<1>2. \A y \in Nat : y < x => <<y, x>> \in R
  BY DEF OpToRel
<1>3. \A y \in S : ~(y < x)
  BY <1>1, <1>2
<1> QED BY <1>3

\* What holds at first and goes on from one word to the next holds after all.
LEMMA WordByWord ==
    ASSUME NEW n \in Nat, NEW S, 0 \in S, \A i \in 1 .. n : i - 1 \in S => i \in S
    PROVE  \A i \in 0 .. n : i \in S
<1> DEFINE Bad == {i \in 0 .. n : i \notin S}
<1> SUFFICES ASSUME Bad # {} PROVE FALSE
  OBVIOUS
<1>1. Bad \in SUBSET Nat
  OBVIOUS
<1>2. PICK x \in Bad : \A y \in Bad : x =< y
  BY <1>1, LeastNatural
<1>3. x \in 1 .. n /\ x \notin S
  BY <1>2
<1>4. x - 1 \in 0 .. n /\ ~(x =< x - 1)
  BY <1>3
<1>5. x - 1 \in S
  BY <1>2, <1>4
<1> QED BY <1>3, <1>5

\* If each word takes the wire from one set to the next, the last one takes it
\* to the last.
LEMMA DrainedIn ==
    ASSUME NEW w, NEW n \in Nat, NEW G, w \in G[0],
           \A i \in 1 .. n : \A v \in G[i - 1] : Exchange(v, tx[i]) \in G[i]
    PROVE  Drained(w, n) \in G[n]
<1> DEFINE After(f, m) ==
             f = [i \in 0 .. m |-> IF i = 0 THEN w ELSE Exchange(f[i - 1], tx[i])]
<1>1. \E f : After(f, n)
  <2>1. After([i \in 0 .. 0 |-> w], 0)
    OBVIOUS
  <2>2. ASSUME NEW m \in 1 .. n, \E f : After(f, m - 1) PROVE \E f : After(f, m)
    <3>1. PICK f : After(f, m - 1)
      BY <2>2
    <3> DEFINE g == [i \in 0 .. m |-> IF i < m THEN f[i] ELSE Exchange(f[m - 1], tx[m])]
    <3>2. ASSUME NEW i \in 0 .. m
          PROVE  g[i] = IF i = 0 THEN w ELSE Exchange(g[i - 1], tx[i])
      <4>1. CASE i = m
        BY <4>1
      <4>2. CASE i # m
        <5>1. i \in 0 .. m - 1 /\ g[i] = f[i] /\ (i # 0 => g[i - 1] = f[i - 1])
          BY <4>2
        <5>2. f[i] = IF i = 0 THEN w ELSE Exchange(f[i - 1], tx[i])
          BY <3>1, <5>1
        <5> QED BY <5>1, <5>2
      <4> QED BY <4>1, <4>2
    <3>3. After(g, m)
      BY <3>2
    <3> HIDE DEF g, After
    <3> QED BY <3>3
  <2> HIDE DEF After
  <2> DEFINE S == {m \in 0 .. n : \E f : After(f, m)}
  <2>3. 0 \in S
    BY <2>1
  <2>4. ASSUME NEW m \in 1 .. n, m - 1 \in S PROVE m \in S
    BY <2>2, <2>4
  <2>5. \A m \in 0 .. n : m \in S
    <3> HIDE DEF S
    <3> QED BY <2>3, <2>4, WordByWord
  <2> QED BY <2>5
<1>2. PICK f : After(f, n) /\ Drained(w, n) = f[n]
  BY <1>1, Zenon DEF Drained
<1> DEFINE T == {m \in 0 .. n : f[m] \in G[m]}
<1>3. 0 \in T
  BY <1>2
<1>4. ASSUME NEW m \in 1 .. n, m - 1 \in T PROVE m \in T
  <2>1. f[m] = Exchange(f[m - 1], tx[m])
    BY <1>2
  <2> QED BY <1>4, <2>1
<1> HIDE DEF T
<1>5. n \in T
  BY <1>3, <1>4, WordByWord
<1> QED BY <1>2, <1>5 DEF T

-----------------------------------------------------------------------------
(* The inductive invariant.                                                *)

\* What the driver sends in a stage of an exchange.
Sending ==
    CASE pc = "boot" -> <<>>
      [] pc = "sent" -> Frame(cmd, block)
      [] pc = "data" -> [k \in 1 .. BlockSize + 2 |-> IDLE]
      [] pc = "block" -> <<TOKEN_START>> \o data \o <<IDLE, IDLE>>
      [] OTHER -> <<IDLE>>

\* How many bytes of it the card has taken: the others are in tx, then in out.
Gone == Len(Sending) - Len(tx) - Len(out)

\* The queues hold the rest of it, each word with the chip select it was written
\* under, and have room for what a driver that reads has asked for.
QueueInv ==
    /\ Gone >= 0
    /\ \A i \in 1 .. Len(tx) : tx[i] = [byte |-> Sending[Gone + i], cs |-> cs]
    /\ \A i \in 1 .. Len(out) : out[i] = Sending[Gone + Len(tx) + i]
    /\ keep => Len(tx) + Len(rx) <= Depth

\* What the driver is about, and what it may be doing with its chip select.
Ready == step = "ready"
Reading == Ready /\ cmd = 17
Writing == Ready /\ cmd = 24

DriverInv ==
    /\ pc \in {"boot", "released", "sent", "r1", "token", "data", "block", "response"}
    /\ step \in {"CMD0", "CMD55", "ACMD41", "ready"}
    /\ cs <=> pc = "released"
    /\ keep <=> pc \in {"r1", "token", "data", "response"}
    /\ pc \in {"sent", "r1"} => cmd \in IF Ready THEN {17, 24} ELSE {0, 41, 55}
    /\ pc \in {"token", "data"} => Reading
    /\ pc \in {"block", "response"} => Writing
    /\ pc = "boot" => ~Ready
    /\ pc = "data" => block < NBlocks
    /\ cmd \in 0 .. 63 /\ block \in Byte /\ data \in Block
    /\ pc \in {"sent", "r1", "block", "response"} /\ Writing /\ block < NBlocks =>
         data \in may[block]

\* The cards whose sequences fit their phase.
Cards ==
    {c \in [phase : Phase, index : 0 .. 63, taken : Nat, arg : Byte,
            reply : Seq(Byte), app_cmd_pending : BOOLEAN,
            acmd41_busy_left : 0 .. Busy, initialised : BOOLEAN,
            write_block : Byte, write_pending : BOOLEAN,
            write_buf : Seq(Byte), blocks : [0 .. NBlocks - 1 -> Block]] :
        /\ Len(c.write_buf) <= BlockSize
        /\ c.phase = "Reply" => c.reply # <<>>
        /\ c.phase = "WriteData" =>
             Len(c.write_buf) = IF c.taken <= BlockSize THEN c.taken ELSE BlockSize}

\* What a card answers to the driver's CMD17 or CMD24, and that it has sent the
\* first n bytes of it.
AnswerLen == IF cmd = 17 /\ block < NBlocks THEN BlockSize + 5 ELSE 2
Answer(c, i) ==
    CASE i = 2 -> R1_READY
      [] i = 3 -> TOKEN_START
      [] i \in 4 .. BlockSize + 3 -> c.blocks[block][i - 3]
      [] OTHER -> IDLE

Told(c, n) ==
    /\ n \in 0 .. AnswerLen
    /\ n < AnswerLen =>
         /\ c.phase = "Reply" /\ Len(c.reply) = AnswerLen - n
         /\ \A i \in 1 .. AnswerLen - n : c.reply[i] = Answer(c, n + i)
    /\ n = AnswerLen =>
         c.phase = IF c.write_pending THEN "AwaitWriteToken" ELSE "Idle"

\* The i-th byte read in a stage: the driver has taken the first ones from r.
ReadAt(r, i) == IF i <= Len(got) THEN got[i] ELSE r[i - Len(got)]

\* Where the card c is in each stage when it has taken k bytes of it, and what
\* came back is in got and r.
InFrame(c, k) ==
    /\ k = 0 => c.phase = "Idle"
    /\ k \in 1 .. ArgBytes + 1 =>
         c.phase = "Command" /\ c.index = cmd /\ c.taken = k - 1
    /\ k = ArgBytes + 1 => c.arg = block
    /\ k = ArgBytes + 2 =>
         /\ IF Ready THEN Told(c, 0) ELSE c.phase = "Reply"
         /\ Writing => c.write_pending /\ c.write_block = block
         /\ cmd # 55 => ~c.app_cmd_pending

\* A poll for R1 reads one byte of the answer; Idle bytes may come before it.
InR1(c, r, k) ==
    /\ cmd # 55 => ~c.app_cmd_pending
    /\ Writing => c.write_pending /\ c.write_block = block
    /\ IF Ready
       THEN \E n \in 0 .. 2 :
              /\ Told(c, n)
              /\ k = 0 => n < 2
              /\ k = 1 => n > 0 /\ ReadAt(r, 1) = Answer(c, n)
       ELSE c.phase \in {"Reply", "AwaitWriteToken", "Idle"}

InToken(c, r, k) ==
    IF block < NBlocks
    THEN Told(c, 2 + k) /\ (k = 1 => ReadAt(r, 1) = TOKEN_START)
    ELSE Told(c, 2) /\ (k = 1 => ReadAt(r, 1) = IDLE)

InData(c, r, k) ==
    /\ Told(c, 3 + k)
    /\ \A i \in 1 .. k : ReadAt(r, i) = Answer(c, 3 + i)

InBlock(c, k) ==
    /\ c.write_block = block
    /\ k = 0 => c.phase = "AwaitWriteToken"
    /\ k \in 1 .. BlockSize + 2 =>
         /\ c.phase = "WriteData" /\ c.taken = k - 1
         /\ \A i \in 1 .. Len(c.write_buf) : c.write_buf[i] = data[i]
    /\ k = BlockSize + 3 =>
         c.phase = "DataResponse" /\ (block < NBlocks => c.blocks[block] = data)

InResponse(c, k) ==
    /\ c.phase = IF k = 0 THEN "DataResponse" ELSE "Idle"
    /\ block < NBlocks => c.blocks[block] = data

\* A card c that sees the chip select h, and has taken k bytes of the stage.
StageInv(c, h, r, k) ==
    /\ c \in Cards
    /\ h => c.phase = "Idle"
    /\ h => pc \in {"boot", "released"} \/ (pc = "sent" /\ k = 0)
    /\ pc = "released" /\ k = 1 => h
    /\ Ready => ~c.app_cmd_pending
    /\ \A b \in 0 .. NBlocks - 1 : c.blocks[b] \in may[b]
    /\ keep => Len(got) + Len(r) = k
    /\ pc = "sent" => InFrame(c, k)
    /\ pc = "r1" => InR1(c, r, k)
    /\ pc = "token" => InToken(c, r, k)
    /\ pc = "data" => InData(c, r, k)
    /\ pc = "block" => InBlock(c, k)
    /\ pc = "response" => InResponse(c, k)

SdInv ==
    /\ TypeOK /\ ~misframed
    /\ DriverInv
    /\ QueueInv
    /\ StageInv(card, cs_high, rx, Gone)

-----------------------------------------------------------------------------
(* Sequences.                                                              *)

LEMMA FunctionSeq ==
    ASSUME NEW S, NEW n \in Nat, NEW f \in [1 .. n -> S]
    PROVE  f \in Seq(S) /\ Len(f) = n
<1>1. f \in Seq(S)
  BY SeqDef
<1>2. Len(f) \in Nat /\ DOMAIN f = 1 .. Len(f) /\ DOMAIN f = 1 .. n
  BY <1>1, LenProperties
<1>3. Len(f) = n
  BY <1>2
<1> QED BY <1>1, <1>3

LEMMA BlockSeq ==
    ASSUME NEW s
    PROVE  s \in Block <=> s \in Seq(Byte) /\ Len(s) = BlockSize
<1>1. ASSUME s \in Block PROVE s \in Seq(Byte) /\ Len(s) = BlockSize
  BY <1>1, FunctionSeq, SdAssumption DEF Block
<1>2. ASSUME s \in Seq(Byte), Len(s) = BlockSize PROVE s \in Block
  BY <1>2, LenProperties DEF Block
<1> QED BY <1>1, <1>2

LEMMA OneSeq ==
    ASSUME NEW S, NEW e \in S
    PROVE  <<e>> \in Seq(S) /\ Len(<<e>>) = 1 /\ <<e>>[1] = e
OBVIOUS

LEMMA TwoSeq ==
    ASSUME NEW S, NEW e \in S, NEW f \in S
    PROVE  <<e, f>> \in Seq(S) /\ Len(<<e, f>>) = 2 /\ <<e, f>>[1] = e /\ <<e, f>>[2] = f
OBVIOUS

LEMMA Bytes == {IDLE, R1_IDLE, R1_READY, TOKEN_START, DATA_ACCEPTED} \subseteq Byte
BY DEF IDLE, R1_IDLE, R1_READY, TOKEN_START, DATA_ACCEPTED, Byte

\* A command is its number, the argument's bytes and the checksum.
LEMMA FrameShape ==
    ASSUME NEW i \in 0 .. 63, NEW b \in Byte
    PROVE  /\ Frame(i, b) \in Seq(Byte) /\ Len(Frame(i, b)) = ArgBytes + 2
           /\ Frame(i, b)[1] = 64 + i /\ Frame(i, b)[ArgBytes + 1] = b
<1> DEFINE args == [k \in 1 .. ArgBytes |-> IF k = ArgBytes THEN b ELSE 0]
           start == <<64 + i>> \o args
<1>1. 64 + i \in Byte /\ 149 \in Byte /\ ArgBytes \in Nat \ {0}
  BY SdAssumption DEF Byte
<1>2. args \in Seq(Byte) /\ Len(args) = ArgBytes /\ args[ArgBytes] = b
  <2>1. args \in [1 .. ArgBytes -> Byte]
    BY DEF Byte
  <2>2. args \in Seq(Byte) /\ Len(args) = ArgBytes
    BY <2>1, <1>1, FunctionSeq
  <2> QED BY <2>2, <1>1
<1> HIDE DEF args
<1>3. <<64 + i>> \in Seq(Byte) /\ Len(<<64 + i>>) = 1 /\ <<64 + i>>[1] = 64 + i
  BY <1>1, OneSeq
<1>4. /\ start \in Seq(Byte) /\ Len(start) = 1 + ArgBytes
      /\ start[1] = 64 + i /\ start[ArgBytes + 1] = b
  BY <1>1, <1>2, <1>3, ConcatProperties
<1> HIDE DEF start
<1>5. <<149>> \in Seq(Byte) /\ Len(<<149>>) = 1
  BY <1>1, OneSeq
<1>6. /\ start \o <<149>> \in Seq(Byte) /\ Len(start \o <<149>>) = ArgBytes + 2
      /\ (start \o <<149>>)[1] = 64 + i /\ (start \o <<149>>)[ArgBytes + 1] = b
  BY <1>1, <1>4, <1>5, ConcatProperties
<1>7. Frame(i, b) = start \o <<149>>
  BY DEF Frame, start, args
<1> QED BY <1>6, <1>7

\* A block goes out, and comes back, between a token and its checksum.
LEMMA BlockShape ==
    ASSUME NEW d \in Block
    PROVE  LET s == <<TOKEN_START>> \o d \o <<IDLE, IDLE>>
           IN  /\ s \in Seq(Byte) /\ Len(s) = BlockSize + 3
               /\ s[1] = TOKEN_START
               /\ \A i \in 1 .. BlockSize : s[i + 1] = d[i]
               /\ s[BlockSize + 2] = IDLE /\ s[BlockSize + 3] = IDLE
<1> DEFINE start == <<TOKEN_START>> \o d
<1>1. /\ <<TOKEN_START>> \in Seq(Byte) /\ Len(<<TOKEN_START>>) = 1
      /\ <<TOKEN_START>>[1] = TOKEN_START
      /\ <<IDLE, IDLE>> \in Seq(Byte) /\ Len(<<IDLE, IDLE>>) = 2
      /\ <<IDLE, IDLE>>[1] = IDLE /\ <<IDLE, IDLE>>[2] = IDLE
  BY Bytes, OneSeq, TwoSeq
<1>2. d \in Seq(Byte) /\ Len(d) = BlockSize /\ BlockSize \in Nat \ {0}
  BY BlockSeq, SdAssumption
<1>3. /\ start \in Seq(Byte) /\ Len(start) = 1 + BlockSize
      /\ \A i \in 1 .. 1 + BlockSize :
           start[i] = IF i <= 1 THEN <<TOKEN_START>>[i] ELSE d[i - 1]
  BY <1>1, <1>2, ConcatProperties
<1>4. start[1] = TOKEN_START /\ \A i \in 1 .. BlockSize : start[i + 1] = d[i]
  BY <1>1, <1>2, <1>3
<1> HIDE DEF start
<1> DEFINE s == start \o <<IDLE, IDLE>>
<1>5. /\ s \in Seq(Byte) /\ Len(s) = BlockSize + 3
      /\ \A i \in 1 .. BlockSize + 3 :
           s[i] = IF i <= 1 + BlockSize THEN start[i] ELSE <<IDLE, IDLE>>[i - (1 + BlockSize)]
  BY <1>1, <1>2, <1>3, ConcatProperties
<1> HIDE DEF s
<1>6. /\ s[1] = start[1] /\ \A i \in 1 .. BlockSize : s[i + 1] = start[i + 1]
      /\ s[BlockSize + 2] = <<IDLE, IDLE>>[1] /\ s[BlockSize + 3] = <<IDLE, IDLE>>[2]
  BY <1>2, <1>5
<1>7. s = <<TOKEN_START>> \o d \o <<IDLE, IDLE>>
  BY DEF s, start
<1> QED BY <1>1, <1>4, <1>5, <1>6, <1>7

\* What a stage sends is a sequence of bytes of the stage's length.
LEMMA SendingShape ==
    ASSUME DriverInv
    PROVE  /\ Sending \in Seq(Byte) /\ Len(Sending) \in Nat
           /\ pc = "boot" => Len(Sending) = 0
           /\ pc \in {"released", "r1", "token", "response"} =>
                Len(Sending) = 1 /\ Sending[1] = IDLE
           /\ pc = "sent" => /\ Len(Sending) = ArgBytes + 2 /\ Sending[1] = 64 + cmd
                             /\ Sending[ArgBytes + 1] = block
           /\ pc = "data" => Len(Sending) = BlockSize + 2
           /\ pc = "block" => /\ Len(Sending) = BlockSize + 3 /\ Sending[1] = TOKEN_START
                              /\ \A i \in 1 .. BlockSize : Sending[i + 1] = data[i]
<1>1. CASE pc = "boot"
  <2>1. Sending = <<>>
    BY <1>1 DEF Sending
  <2> QED BY <1>1, <2>1, EmptySeq
<1>2. CASE pc \in {"released", "r1", "token", "response"}
  <2>1. Sending = <<IDLE>>
    BY <1>2 DEF Sending
  <2> QED BY <1>2, <2>1, OneSeq, Bytes
<1>3. CASE pc = "sent"
  <2>1. Sending = Frame(cmd, block) /\ cmd \in 0 .. 63 /\ block \in Byte
    BY <1>3 DEF Sending, DriverInv
  <2>2. /\ Sending \in Seq(Byte) /\ Len(Sending) = ArgBytes + 2
        /\ Sending[1] = 64 + cmd /\ Sending[ArgBytes + 1] = block
    BY <2>1, FrameShape
  <2>3. ArgBytes + 2 \in Nat
    BY SdAssumption
  <2> QED BY <1>3, <2>2, <2>3
<1>4. CASE pc = "data"
  <2>1. Sending = [k \in 1 .. BlockSize + 2 |-> IDLE]
    BY <1>4 DEF Sending
  <2>2. BlockSize + 2 \in Nat
    BY SdAssumption
  <2>3. Sending \in [1 .. BlockSize + 2 -> Byte]
    BY <2>1, Bytes
  <2>4. Sending \in Seq(Byte) /\ Len(Sending) = BlockSize + 2
    BY <2>2, <2>3, FunctionSeq
  <2> QED BY <1>4, <2>2, <2>4
<1>5. CASE pc = "block"
  <2>1. Sending = <<TOKEN_START>> \o data \o <<IDLE, IDLE>> /\ data \in Block
    BY <1>5 DEF Sending, DriverInv
  <2> QED BY <1>5, <2>1, BlockShape, SdAssumption
<1> QED BY <1>1, <1>2, <1>3, <1>4, <1>5 DEF DriverInv

-----------------------------------------------------------------------------
(* The card.                                                               *)

LEMMA BlockReadShape ==
    ASSUME NEW c \in Cards
    PROVE  /\ BlockRead(c) \in Seq(Byte)
           /\ c.arg < NBlocks =>
                /\ c.arg \in 0 .. NBlocks - 1 /\ c.blocks[c.arg] \in Block
                /\ Len(BlockRead(c)) = BlockSize + 3
                /\ BlockRead(c)[1] = TOKEN_START
                /\ \A i \in 1 .. BlockSize : BlockRead(c)[i + 1] = c.blocks[c.arg][i]
                /\ BlockRead(c)[BlockSize + 2] = IDLE /\ BlockRead(c)[BlockSize + 3] = IDLE
           /\ ~(c.arg < NBlocks) => BlockRead(c) = <<>>
<1>1. CASE c.arg < NBlocks
  <2>0. c.arg \in Byte /\ c.blocks \in [0 .. NBlocks - 1 -> Block]
    BY DEF Cards
  <2>a. c.arg \in 0 .. NBlocks - 1
    <3>1. NBlocks \in Nat
      BY SdAssumption
    <3>2. \A a \in Byte : a \in Nat
      BY DEF Byte
    <3>3. c.arg \in Nat
      BY <2>0, <3>2
    <3> QED BY <1>1, <3>1, <3>3
  <2>1. c.arg \in 0 .. NBlocks - 1 /\ c.blocks[c.arg] \in Block
    BY <2>0, <2>a
  <2>2. BlockRead(c) = <<TOKEN_START>> \o c.blocks[c.arg] \o <<IDLE, IDLE>>
    BY <1>1 DEF BlockRead
  <2> QED BY <1>1, <2>1, <2>2, BlockShape
<1>2. CASE ~(c.arg < NBlocks)
  BY <1>2, EmptySeq DEF BlockRead
<1> QED BY <1>1, <1>2

\* An answer is a reply of one byte after an idle one, or of a block's more.
LEMMA ReplySeq ==
    ASSUME NEW bytes \in Seq(Byte)
    PROVE  /\ <<IDLE>> \o bytes \in Seq(Byte) /\ Len(<<IDLE>> \o bytes) = Len(bytes) + 1
           /\ <<IDLE>> \o bytes # <<>>
           /\ (<<IDLE>> \o bytes)[1] = IDLE
           /\ \A i \in 1 .. Len(bytes) : (<<IDLE>> \o bytes)[i + 1] = bytes[i]
<1>1. <<IDLE>> \in Seq(Byte) /\ Len(<<IDLE>>) = 1 /\ <<IDLE>>[1] = IDLE /\ Len(bytes) \in Nat
  BY OneSeq, Bytes, LenProperties
<1>2. /\ <<IDLE>> \o bytes \in Seq(Byte) /\ Len(<<IDLE>> \o bytes) = 1 + Len(bytes)
      /\ \A i \in 1 .. 1 + Len(bytes) :
           (<<IDLE>> \o bytes)[i] = IF i <= 1 THEN <<IDLE>>[i] ELSE bytes[i - 1]
  BY <1>1, ConcatProperties
<1>3. <<IDLE>> \o bytes # <<>>
  BY <1>1, <1>2, EmptySeq
<1>4. /\ (<<IDLE>> \o bytes)[1] = IDLE
      /\ \A i \in 1 .. Len(bytes) : (<<IDLE>> \o bytes)[i + 1] = bytes[i]
  BY <1>1, <1>2
<1> QED BY <1>1, <1>2, <1>3, <1>4

\* What BeginReply leaves behind, whatever the command.
LEMMA Begun ==
    ASSUME NEW c \in Cards
    PROVE  /\ BeginReply(c) \in Cards
           /\ BeginReply(c).phase = "Reply" /\ BeginReply(c).blocks = c.blocks
           /\ c.index # 55 => ~BeginReply(c).app_cmd_pending
           /\ ~c.app_cmd_pending /\ c.index = 17 =>
                BeginReply(c).reply = <<IDLE>> \o (<<R1_READY>> \o BlockRead(c))
           /\ ~c.app_cmd_pending /\ c.index = 24 =>
                /\ BeginReply(c).reply = <<IDLE>> \o <<R1_READY>>
                /\ BeginReply(c).write_pending /\ BeginReply(c).write_block = c.arg
<1> DEFINE taken == [c EXCEPT !.app_cmd_pending = FALSE]
           Replies(d, bytes) == [d EXCEPT !.phase = "Reply", !.reply = <<IDLE>> \o bytes]
           Replied(e, d, bytes) ==
             /\ e \in Cards /\ e.phase = "Reply" /\ e.reply = <<IDLE>> \o bytes
             /\ e.blocks = c.blocks
             /\ ~d.app_cmd_pending => ~e.app_cmd_pending
             /\ d.write_pending => e.write_pending
             /\ e.write_block = d.write_block
<1>0. /\ c.index \in 0 .. 63 /\ c.arg \in Byte /\ c.app_cmd_pending \in BOOLEAN
      /\ c.acmd41_busy_left \in 0 .. Busy /\ Busy \in Nat
  BY SdAssumption DEF Cards
<1>1. ASSUME NEW d \in Cards, d.blocks = c.blocks, NEW bytes \in Seq(Byte),
             NEW e, e = Replies(d, bytes)
      PROVE  Replied(e, d, bytes)
  <2>1. <<IDLE>> \o bytes \in Seq(Byte) /\ <<IDLE>> \o bytes # <<>>
    BY ReplySeq
  <2> QED BY <1>1, <2>1 DEF Cards, Phase
<1>2. taken \in Cards /\ taken.blocks = c.blocks /\ ~taken.app_cmd_pending
  BY DEF Cards
<1>3. /\ <<R1_IDLE>> \in Seq(Byte) /\ <<R1_READY>> \in Seq(Byte)
      /\ <<R1_READY>> \o BlockRead(c) \in Seq(Byte)
  BY OneSeq, Bytes, BlockReadShape, ConcatProperties
<1>4. CASE c.app_cmd_pending /\ c.index = 41 /\ c.acmd41_busy_left > 0
  <2> DEFINE d == [taken EXCEPT !.acmd41_busy_left = @ - 1]
  <2>0. c.acmd41_busy_left - 1 \in 0 .. Busy
    BY <1>0, <1>4
  <2>1. d \in Cards /\ d.blocks = c.blocks /\ ~d.app_cmd_pending
    BY <1>2, <2>0 DEF Cards
  <2>2. BeginReply(c) = Replies(d, <<R1_IDLE>>)
    BY <1>4 DEF BeginReply
  <2> HIDE DEF d, Replies, Replied
  <2>a. Replied(BeginReply(c), d, <<R1_IDLE>>)
    BY <1>1, <1>3, <2>1, <2>2, Zenon
  <2>3. /\ BeginReply(c) \in Cards /\ BeginReply(c).phase = "Reply"
        /\ BeginReply(c).blocks = c.blocks /\ ~BeginReply(c).app_cmd_pending
    BY <2>1, <2>a DEF Replied
  <2> QED BY <1>4, <2>3
<1>5. CASE c.app_cmd_pending /\ c.index = 41 /\ c.acmd41_busy_left = 0
  <2> DEFINE d == [taken EXCEPT !.initialised = TRUE]
  <2>1. d \in Cards /\ d.blocks = c.blocks /\ ~d.app_cmd_pending
    BY DEF Cards
  <2>2. BeginReply(c) = Replies(d, <<R1_READY>>)
    BY <1>5 DEF BeginReply
  <2> HIDE DEF d, Replies, Replied
  <2>a. Replied(BeginReply(c), d, <<R1_READY>>)
    BY <1>1, <1>3, <2>1, <2>2, Zenon
  <2>3. /\ BeginReply(c) \in Cards /\ BeginReply(c).phase = "Reply"
        /\ BeginReply(c).blocks = c.blocks /\ ~BeginReply(c).app_cmd_pending
    BY <2>1, <2>a DEF Replied
  <2> QED BY <1>5, <2>3
<1>6. CASE c.app_cmd_pending /\ c.index # 41
  <2>1. BeginReply(c) = Replies(taken, <<R1_READY>>)
    BY <1>6 DEF BeginReply
  <2> HIDE DEF taken, Replies, Replied
  <2>a. Replied(BeginReply(c), taken, <<R1_READY>>)
    BY <1>1, <1>2, <1>3, <2>1, Zenon
  <2>3. /\ BeginReply(c) \in Cards /\ BeginReply(c).phase = "Reply"
        /\ BeginReply(c).blocks = c.blocks /\ ~BeginReply(c).app_cmd_pending
    BY <1>2, <2>a DEF Replied
  <2> QED BY <1>6, <2>3
<1>7. CASE ~c.app_cmd_pending /\ c.index = 0
  <2>1. BeginReply(c) = Replies(taken, <<R1_IDLE>>)
    BY <1>7 DEF BeginReply
  <2> HIDE DEF taken, Replies, Replied
  <2>a. Replied(BeginReply(c), taken, <<R1_IDLE>>)
    BY <1>1, <1>2, <1>3, <2>1, Zenon
  <2>3. /\ BeginReply(c) \in Cards /\ BeginReply(c).phase = "Reply"
        /\ BeginReply(c).blocks = c.blocks /\ ~BeginReply(c).app_cmd_pending
    BY <1>2, <2>a DEF Replied
  <2> QED BY <1>7, <2>3
<1>8. CASE ~c.app_cmd_pending /\ c.index = 17
  <2>1. BeginReply(c) = Replies(taken, <<R1_READY>> \o BlockRead(c))
    BY <1>8 DEF BeginReply
  <2> HIDE DEF taken, Replies, Replied
  <2>a. Replied(BeginReply(c), taken, <<R1_READY>> \o BlockRead(c))
    BY <1>1, <1>2, <1>3, <2>1, Zenon
  <2>3. /\ BeginReply(c) \in Cards /\ BeginReply(c).phase = "Reply"
        /\ BeginReply(c).blocks = c.blocks /\ ~BeginReply(c).app_cmd_pending
        /\ BeginReply(c).reply = <<IDLE>> \o (<<R1_READY>> \o BlockRead(c))
    BY <1>2, <2>a DEF Replied
  <2> QED BY <1>8, <2>3
<1>9. CASE ~c.app_cmd_pending /\ c.index = 24
  <2> DEFINE d == Announced(taken)
  <2>1. /\ d \in Cards /\ d.blocks = c.blocks /\ ~d.app_cmd_pending
        /\ d.write_pending /\ d.write_block = c.arg
    BY <1>0 DEF Cards, Announced
  <2>2. BeginReply(c) = Replies(d, <<R1_READY>>)
    BY <1>9 DEF BeginReply
  <2> HIDE DEF d, Replies, Replied
  <2>a. Replied(BeginReply(c), d, <<R1_READY>>)
    BY <1>1, <1>3, <2>1, <2>2, Zenon
  <2>3. /\ BeginReply(c) \in Cards /\ BeginReply(c).phase = "Reply"
        /\ BeginReply(c).blocks = c.blocks /\ ~BeginReply(c).app_cmd_pending
        /\ BeginReply(c).reply = <<IDLE>> \o <<R1_READY>>
        /\ BeginReply(c).write_pending /\ BeginReply(c).write_block = c.arg
    BY <2>1, <2>a DEF Replied
  <2> QED BY <1>9, <2>3
<1>10. CASE ~c.app_cmd_pending /\ c.index = 55
  <2> DEFINE d == [taken EXCEPT !.app_cmd_pending = TRUE]
             bytes == <<IF c.initialised THEN R1_READY ELSE R1_IDLE>>
  <2>1. d \in Cards /\ d.blocks = c.blocks
    BY DEF Cards
  <2>2. bytes \in Seq(Byte)
    BY OneSeq, Bytes
  <2>3. BeginReply(c) = Replies(d, bytes)
    BY <1>10 DEF BeginReply
  <2> HIDE DEF d, Replies, bytes
  <2> QED BY <1>1, <1>10, <2>1, <2>2, <2>3
<1>11. CASE ~c.app_cmd_pending /\ c.index \notin {0, 17, 24, 55}
  <2>1. BeginReply(c) = Replies(taken, <<R1_READY>>)
    BY <1>11 DEF BeginReply
  <2> HIDE DEF taken, Replies, Replied
  <2>a. Replied(BeginReply(c), taken, <<R1_READY>>)
    BY <1>1, <1>2, <1>3, <2>1, Zenon
  <2>3. /\ BeginReply(c) \in Cards /\ BeginReply(c).phase = "Reply"
        /\ BeginReply(c).blocks = c.blocks /\ ~BeginReply(c).app_cmd_pending
    BY <1>2, <2>a DEF Replied
  <2> QED BY <1>11, <2>3
<1>12. \/ c.app_cmd_pending /\ c.index = 41 /\ c.acmd41_busy_left > 0
       \/ c.app_cmd_pending /\ c.index = 41 /\ c.acmd41_busy_left = 0
       \/ c.app_cmd_pending /\ c.index # 41
       \/ ~c.app_cmd_pending /\ c.index = 0
       \/ ~c.app_cmd_pending /\ c.index = 17
       \/ ~c.app_cmd_pending /\ c.index = 24
       \/ ~c.app_cmd_pending /\ c.index = 55
       \/ ~c.app_cmd_pending /\ c.index \notin {0, 17, 24, 55}
  BY <1>0
<1> HIDE DEF taken, Replies
<1> QED BY <1>4, <1>5, <1>6, <1>7, <1>8, <1>9, <1>10, <1>11, <1>12

\* A byte leaves the card a card, and the answer is a byte.
LEMMA TakenTypes ==
    ASSUME NEW c \in Cards, NEW byte \in Byte
    PROVE  Taken(c, byte) \in Cards /\ Miso(c) \in Byte
<1>0. c.phase \in Phase /\ c.taken \in Nat /\ BlockSize \in Nat \ {0}
  BY SdAssumption DEF Cards
<1>1. CASE c.phase = "Idle"
  <2>1. byte \in Int /\ byte % 64 \in 0 .. 63
    BY DEF Byte
  <2> QED BY <1>1, <2>1, Bytes DEF Taken, Miso, Cards, Phase
<1>2. CASE c.phase = "Command"
  <2>1. CASE c.taken < ArgBytes
    <3>1. Taken(c, byte) = [c EXCEPT !.arg = byte, !.taken = c.taken + 1] /\ Miso(c) = IDLE
      BY <1>2, <2>1 DEF Taken, Miso
    <3>2. c.taken + 1 \in Nat
      BY <1>0
    <3> QED BY <1>2, <3>1, <3>2, Bytes DEF Cards
  <2>2. CASE ~(c.taken < ArgBytes)
    <3>1. Taken(c, byte) = BeginReply(c) /\ Miso(c) = IDLE
      BY <1>2, <2>2 DEF Taken, Miso
    <3> QED BY <3>1, Begun, Bytes
  <2> QED BY <2>1, <2>2
<1>3. CASE c.phase = "Reply"
  <2>1. c.reply \in Seq(Byte) /\ c.reply # <<>>
    BY <1>3 DEF Cards
  <2>2. /\ Head(c.reply) \in Byte /\ Tail(c.reply) \in Seq(Byte)
        /\ Len(Tail(c.reply)) = Len(c.reply) - 1 /\ Len(c.reply) \in Nat
    BY <2>1, HeadTailProperties, LenProperties
  <2>3. Len(c.reply) > 1 => Tail(c.reply) # <<>>
    BY <2>2, EmptySeq
  <2>4. Miso(c) = Head(c.reply)
    BY <1>3 DEF Miso
  <2>5. Taken(c, byte) \in Cards
    BY <1>3, <2>2, <2>3 DEF Taken, Cards, Phase
  <2> QED BY <2>2, <2>4, <2>5
<1>4. CASE c.phase = "AwaitWriteToken"
  <2>1. <<>> \in Seq(Byte) /\ Len(<<>>) = 0
    BY EmptySeq
  <2>2. Miso(c) = IDLE
    BY <1>4 DEF Miso
  <2>3. CASE byte = TOKEN_START
    <3> DEFINE d == [c EXCEPT !.phase = "WriteData", !.taken = 0, !.write_buf = <<>>]
    <3>1. Taken(c, byte) = d
      BY <1>4, <2>3 DEF Taken
    <3>2. /\ d.phase = "WriteData" /\ d.taken = 0 /\ d.write_buf = <<>>
          /\ 0 <= BlockSize
      BY <1>0 DEF Cards
    <3>3. d \in Cards
      BY <2>1, <3>2 DEF Cards, Phase
    <3> QED BY <2>2, <3>1, <3>3, Bytes
  <2>4. CASE byte # TOKEN_START
    <3>1. Taken(c, byte) = c
      BY <1>4, <2>4 DEF Taken
    <3> QED BY <2>2, <3>1, Bytes
  <2> QED BY <2>3, <2>4
<1>5. CASE c.phase = "WriteData"
  <2>0. /\ c.write_buf \in Seq(Byte)
        /\ Len(c.write_buf) = IF c.taken <= BlockSize THEN c.taken ELSE BlockSize
    BY <1>5 DEF Cards
  <2>1. CASE c.taken < BlockSize
    <3>1. Append(c.write_buf, byte) \in Seq(Byte) /\ Len(Append(c.write_buf, byte)) = c.taken + 1
      BY <1>0, <2>0, <2>1, AppendProperties
    <3>2. /\ Taken(c, byte) = [c EXCEPT !.write_buf = Append(c.write_buf, byte),
                                        !.taken = c.taken + 1]
          /\ Miso(c) = IDLE
      BY <1>5, <2>1 DEF Taken, Miso
    <3>3. c.taken + 1 \in Nat /\ c.taken + 1 <= BlockSize
      BY <1>0, <2>1
    <3> QED BY <1>5, <3>1, <3>2, <3>3, Bytes DEF Cards
  <2>2. CASE c.taken = BlockSize
    <3>1. Taken(c, byte) = [c EXCEPT !.taken = c.taken + 1] /\ Miso(c) = IDLE
      BY <1>0, <1>5, <2>2 DEF Taken, Miso
    <3>2. /\ c.taken + 1 \in Nat /\ ~(c.taken + 1 <= BlockSize)
          /\ Len(c.write_buf) = BlockSize /\ BlockSize <= BlockSize
      BY <1>0, <2>0, <2>2
    <3> QED BY <1>5, <3>1, <3>2, Bytes DEF Cards
  <2>3. CASE c.taken > BlockSize
    <3>1. c.write_buf \in Block
      BY <1>0, <2>0, <2>3, BlockSeq
    <3>2. CommitWrite(c).blocks \in [0 .. NBlocks - 1 -> Block]
      BY <3>1, SdAssumption DEF CommitWrite, Cards, Byte
    <3>3. Taken(c, byte) = [CommitWrite(c) EXCEPT !.phase = "DataResponse"]
      BY <1>0, <1>5, <2>3 DEF Taken
    <3>4. <<>> \in Seq(Byte) /\ Len(<<>>) = 0
      BY EmptySeq
    <3> DEFINE blocks == CommitWrite(c).blocks
    <3>5. Taken(c, byte) = [c EXCEPT !.blocks = blocks, !.write_buf = <<>>,
                                     !.write_pending = FALSE, !.phase = "DataResponse"]
      BY <3>3 DEF CommitWrite, Cards
    <3> HIDE DEF blocks
    <3>7. 0 <= BlockSize
      BY <1>0
    <3>8. Taken(c, byte) \in Cards
      BY <3>2, <3>4, <3>5, <3>7 DEF blocks, Cards, Phase
    <3>6. Miso(c) = IDLE
      BY <1>5 DEF Miso
    <3> QED BY <3>6, <3>8, Bytes
  <2> QED BY <1>0, <2>1, <2>2, <2>3
<1>6. CASE c.phase = "DataResponse"
  BY <1>6, Bytes DEF Taken, Miso, Cards, Phase
<1> QED BY <1>0, <1>1, <1>2, <1>3, <1>4, <1>5, <1>6 DEF Phase

\* What a byte leaves as it is, unless it ends a command or a block.
Kept(c, d) ==
    /\ d.blocks = c.blocks /\ d.write_block = c.write_block
    /\ d.app_cmd_pending <=> c.app_cmd_pending
    /\ d.write_pending <=> c.write_pending

\* What a byte makes of the card, phase by phase.
LEMMA TakenIdle ==
    ASSUME NEW c \in Cards, c.phase = "Idle"
    PROVE  /\ Taken(c, IDLE) = c /\ Miso(c) = IDLE
           /\ \A i \in 0 .. 63 :
                LET d == Taken(c, 64 + i)
                IN  d.phase = "Command" /\ d.index = i /\ d.taken = 0 /\ Kept(c, d)
<1>1. Miso(c) = IDLE
  BY DEF Miso
<1>2. ~IsFrameStart(IDLE)
  BY DEF IsFrameStart, IDLE
<1>3. Taken(c, IDLE) = c
  BY <1>2 DEF Taken
<1>4. ASSUME NEW i \in 0 .. 63, NEW d, d = Taken(c, 64 + i)
      PROVE  d.phase = "Command" /\ d.index = i /\ d.taken = 0 /\ Kept(c, d)
  <2>1. IsFrameStart(64 + i) /\ (64 + i) % 64 = i
    BY DEF IsFrameStart
  <2>2. d = [c EXCEPT !.phase = "Command", !.index = i, !.taken = 0]
    BY <1>4, <2>1 DEF Taken
  <2> QED BY <2>2 DEF Cards, Kept
<1> QED BY <1>1, <1>3, <1>4

LEMMA TakenArg ==
    ASSUME NEW c \in Cards, c.phase = "Command", c.taken < ArgBytes, NEW byte \in Byte,
           NEW d, d = Taken(c, byte)
    PROVE  /\ d.phase = "Command" /\ d.index = c.index /\ d.taken = c.taken + 1
           /\ d.arg = byte /\ Kept(c, d)
<1>1. d = [c EXCEPT !.arg = byte, !.taken = c.taken + 1]
  BY DEF Taken
<1> QED BY <1>1 DEF Cards, Kept

LEMMA TakenReply ==
    ASSUME NEW c \in Cards, c.phase = "Reply", NEW byte \in Byte,
           NEW d, d = Taken(c, byte)
    PROVE  /\ Miso(c) = c.reply[1] /\ Kept(c, d)
           /\ IF Len(c.reply) > 1
              THEN /\ d.phase = "Reply" /\ Len(d.reply) = Len(c.reply) - 1
                   /\ \A i \in 1 .. Len(c.reply) - 1 : d.reply[i] = c.reply[i + 1]
              ELSE /\ Len(c.reply) = 1
                   /\ d.phase = IF c.write_pending THEN "AwaitWriteToken" ELSE "Idle"
<1>1. c.reply \in Seq(Byte) /\ c.reply # <<>>
  BY DEF Cards
<1>2. /\ Len(c.reply) \in Nat \ {0} /\ Head(c.reply) = c.reply[1]
      /\ Len(Tail(c.reply)) = Len(c.reply) - 1
      /\ \A i \in 1 .. Len(c.reply) - 1 : Tail(c.reply)[i] = c.reply[i + 1]
  <2>1. Len(c.reply) \in Nat \ {0}
    BY <1>1, EmptySeq
  <2>2. /\ Len(Tail(c.reply)) = Len(c.reply) - 1
        /\ \A i \in 1 .. Len(Tail(c.reply)) : Tail(c.reply)[i] = c.reply[i + 1]
    BY <1>1, HeadTailProperties
  <2> QED BY <1>1, <2>1, <2>2
<1>3. Miso(c) = c.reply[1]
  BY <1>2 DEF Miso
<1>4. Kept(c, d) /\ d.reply = Tail(c.reply)
  BY DEF Taken, Kept, Cards
<1>5. d.phase = IF Len(c.reply) > 1 THEN "Reply"
                ELSE IF c.write_pending THEN "AwaitWriteToken" ELSE "Idle"
  BY DEF Taken, Cards
<1>6. Len(c.reply) > 1 \/ Len(c.reply) = 1
  <2>1. \A n \in Nat \ {0} : n > 1 \/ n = 1
    OBVIOUS
  <2> QED BY <1>2, <2>1, Zenon
<1> QED BY <1>2, <1>3, <1>4, <1>5, <1>6

LEMMA TakenAwaiting ==
    ASSUME NEW c \in Cards, c.phase = "AwaitWriteToken"
    PROVE  /\ Miso(c) = IDLE /\ Taken(c, IDLE) = c
           /\ LET d == Taken(c, TOKEN_START)
              IN  d.phase = "WriteData" /\ d.taken = 0 /\ d.write_buf = <<>> /\ Kept(c, d)
<1>1. Miso(c) = IDLE
  BY DEF Miso
<1>2. Taken(c, IDLE) = c
  BY DEF Taken, IDLE, TOKEN_START
<1>3. Taken(c, TOKEN_START) = [c EXCEPT !.phase = "WriteData", !.taken = 0, !.write_buf = <<>>]
  BY DEF Taken
<1>4. ASSUME NEW d, d = [c EXCEPT !.phase = "WriteData", !.taken = 0, !.write_buf = <<>>]
      PROVE  d.phase = "WriteData" /\ d.taken = 0 /\ d.write_buf = <<>> /\ Kept(c, d)
  BY <1>4 DEF Cards, Kept
<1> QED BY <1>1, <1>2, <1>3, <1>4

LEMMA TakenWriting ==
    ASSUME NEW c \in Cards, c.phase = "WriteData", NEW byte \in Byte,
           NEW d, d = Taken(c, byte)
    PROVE  /\ c.taken < BlockSize =>
                /\ d.phase = "WriteData" /\ d.taken = c.taken + 1 /\ Kept(c, d)
                /\ Len(c.write_buf) = c.taken /\ Len(d.write_buf) = c.taken + 1
                /\ \A i \in 1 .. c.taken : d.write_buf[i] = c.write_buf[i]
                /\ d.write_buf[c.taken + 1] = byte
           /\ c.taken = BlockSize =>
                /\ d.phase = "WriteData" /\ d.taken = c.taken + 1 /\ Kept(c, d)
                /\ d.write_buf = c.write_buf
           /\ c.taken > BlockSize =>
                /\ d.phase = "DataResponse" /\ d.write_block = c.write_block
                /\ d.app_cmd_pending <=> c.app_cmd_pending
                /\ c.write_buf \in Block
                /\ \A b \in 0 .. NBlocks - 1 :
                     d.blocks[b] = IF b = c.write_block THEN c.write_buf ELSE c.blocks[b]
<1>0. /\ c.write_buf \in Seq(Byte) /\ c.taken \in Nat /\ BlockSize \in Nat \ {0}
      /\ Len(c.write_buf) = IF c.taken <= BlockSize THEN c.taken ELSE BlockSize
  BY SdAssumption DEF Cards
<1>1. CASE c.taken < BlockSize
  <2>1. d = [c EXCEPT !.write_buf = Append(c.write_buf, byte), !.taken = c.taken + 1]
    BY <1>1 DEF Taken
  <2>2. Len(c.write_buf) = c.taken
    BY <1>0, <1>1
  <2>3. /\ Len(Append(c.write_buf, byte)) = c.taken + 1
        /\ \A i \in 1 .. c.taken : Append(c.write_buf, byte)[i] = c.write_buf[i]
        /\ Append(c.write_buf, byte)[c.taken + 1] = byte
    BY <1>0, <2>2, AppendProperties
  <2>4. /\ d.phase = "WriteData" /\ d.taken = c.taken + 1 /\ Kept(c, d)
        /\ d.write_buf = Append(c.write_buf, byte)
    BY <2>1 DEF Cards, Kept
  <2>5. ~(c.taken = BlockSize) /\ ~(c.taken > BlockSize)
    BY <1>0, <1>1
  <2> QED BY <2>2, <2>3, <2>4, <2>5
<1>2. CASE c.taken = BlockSize
  <2>1. d = [c EXCEPT !.taken = c.taken + 1]
    BY <1>0, <1>2 DEF Taken
  <2>2. d.phase = "WriteData" /\ d.taken = c.taken + 1 /\ Kept(c, d) /\ d.write_buf = c.write_buf
    BY <2>1 DEF Cards, Kept
  <2>3. ~(c.taken < BlockSize) /\ ~(c.taken > BlockSize)
    BY <1>0, <1>2
  <2> QED BY <2>2, <2>3
<1>3. CASE c.taken > BlockSize
  <2>1. d = [CommitWrite(c) EXCEPT !.phase = "DataResponse"]
    BY <1>0, <1>3 DEF Taken
  <2>2. c.write_buf \in Block
    BY <1>0, <1>3, BlockSeq
  <2>3. /\ d.phase = "DataResponse" /\ d.write_block = c.write_block
        /\ d.app_cmd_pending <=> c.app_cmd_pending
        /\ d.blocks = CommitWrite(c).blocks
    BY <2>1 DEF CommitWrite, Cards
  <2>4. ASSUME NEW b \in 0 .. NBlocks - 1
        PROVE  CommitWrite(c).blocks[b] =
                 IF b = c.write_block THEN c.write_buf ELSE c.blocks[b]
    <3>1. c.blocks \in [0 .. NBlocks - 1 -> Block] /\ NBlocks \in Nat \ {0}
      BY SdAssumption DEF Cards
    <3>2. CommitWrite(c).blocks = IF c.write_block < NBlocks
                                  THEN [c.blocks EXCEPT ![c.write_block] = c.write_buf]
                                  ELSE c.blocks
      BY DEF CommitWrite, Cards
    <3> QED BY <3>1, <3>2
  <2>5. ~(c.taken < BlockSize) /\ ~(c.taken = BlockSize)
    BY <1>0, <1>3
  <2> QED BY <2>2, <2>3, <2>4, <2>5
<1>4. c.taken < BlockSize \/ c.taken = BlockSize \/ c.taken > BlockSize
  BY <1>0
<1> QED BY <1>1, <1>2, <1>3, <1>4

\* The same, of a byte that belongs to the block.
LEMMA TakenData ==
    ASSUME NEW c \in Cards, c.phase = "WriteData", c.taken < BlockSize, NEW byte \in Byte,
           NEW d, d = Taken(c, byte)
    PROVE  /\ d.phase = "WriteData" /\ d.taken = c.taken + 1 /\ Kept(c, d)
           /\ Len(c.write_buf) = c.taken /\ Len(d.write_buf) = c.taken + 1
           /\ \A i \in 1 .. c.taken : d.write_buf[i] = c.write_buf[i]
           /\ d.write_buf[c.taken + 1] = byte
  BY TakenWriting

LEMMA TakenResponse ==
    ASSUME NEW c \in Cards, c.phase = "DataResponse", NEW byte \in Byte,
           NEW d, d = Taken(c, byte)
    PROVE  Miso(c) = DATA_ACCEPTED /\ d.phase = "Idle" /\ Kept(c, d)
BY DEF Taken, Miso, Cards, Kept

-----------------------------------------------------------------------------
(* A word's step through a stage.                                          *)

LEMMA AnswerLens ==
    /\ AnswerLen \in Nat /\ AnswerLen >= 2
    /\ cmd = 17 /\ block < NBlocks => AnswerLen = BlockSize + 5
    /\ ~(cmd = 17 /\ block < NBlocks) => AnswerLen = 2
BY SdAssumption DEF AnswerLen

LEMMA KeptAnswer ==
    ASSUME NEW c, NEW d, d.blocks = c.blocks, NEW i
    PROVE  Answer(d, i) = Answer(c, i)
BY DEF Answer

LEMMA ToldNone ==
    ASSUME NEW d, d.phase = "Reply", Len(d.reply) = AnswerLen,
           \A i \in 1 .. AnswerLen : d.reply[i] = Answer(d, i)
    PROVE  Told(d, 0)
<1>1. /\ 0 \in 0 .. AnswerLen /\ 0 < AnswerLen /\ 0 # AnswerLen /\ AnswerLen - 0 = AnswerLen
  BY AnswerLens
<1>2. ASSUME NEW i \in 1 .. AnswerLen - 0 PROVE d.reply[i] = Answer(d, 0 + i)
  <2>1. i \in 1 .. AnswerLen /\ 0 + i = i
    BY AnswerLens
  <2> QED BY <2>1
<1> QED BY <1>1, <1>2 DEF Told

\* A card that has told n bytes tells the next, or idles.
LEMMA ToldNext ==
    ASSUME NEW c \in Cards, NEW n, Told(c, n)
    PROVE  /\ n < AnswerLen =>
                /\ Told(Taken(c, IDLE), n + 1) /\ Miso(c) = Answer(c, n + 1)
                /\ Kept(c, Taken(c, IDLE))
           /\ ~(n < AnswerLen) => Taken(c, IDLE) = c /\ Miso(c) = IDLE
<1>1. n \in 0 .. AnswerLen /\ AnswerLen \in Nat
  BY AnswerLens DEF Told
<1>2. CASE n < AnswerLen
  <2> DEFINE d == Taken(c, IDLE)
             m == AnswerLen - n
  <2>1. c.phase = "Reply" /\ Len(c.reply) = m /\ \A i \in 1 .. m : c.reply[i] = Answer(c, n + i)
    BY <1>2 DEF Told
  <2>2. m \in Nat /\ m >= 1 /\ n + 1 \in 0 .. AnswerLen /\ AnswerLen - (n + 1) = m - 1
    BY <1>1, <1>2
  <2>3. IDLE \in Byte
    BY Bytes
  <2>4. /\ Miso(c) = c.reply[1] /\ Kept(c, d)
        /\ IF m > 1
           THEN /\ d.phase = "Reply" /\ Len(d.reply) = m - 1
                /\ \A i \in 1 .. m - 1 : d.reply[i] = c.reply[i + 1]
           ELSE d.phase = IF c.write_pending THEN "AwaitWriteToken" ELSE "Idle"
    <3> HIDE DEF m
    <3>1. \A e : e = Taken(c, IDLE) =>
            /\ Miso(c) = c.reply[1] /\ Kept(c, e)
            /\ IF Len(c.reply) > 1
               THEN /\ e.phase = "Reply" /\ Len(e.reply) = Len(c.reply) - 1
                    /\ \A i \in 1 .. Len(c.reply) - 1 : e.reply[i] = c.reply[i + 1]
               ELSE /\ Len(c.reply) = 1
                    /\ e.phase = IF c.write_pending THEN "AwaitWriteToken" ELSE "Idle"
      BY <2>1, <2>3, TakenReply
    <3> HIDE DEF d
    <3>2. d = Taken(c, IDLE)
      BY DEF d
    <3> QED BY <2>1, <3>1, <3>2
  <2> HIDE DEF d
  <2>5. Miso(c) = Answer(c, n + 1)
    BY <2>1, <2>2, <2>4
  <2>6. \A i : Answer(d, i) = Answer(c, i)
    BY <2>4, KeptAnswer DEF Kept
  <2>7. CASE m > 1
    <3>1. n + 1 < AnswerLen /\ n + 1 # AnswerLen
      BY <1>1, <2>7
    <3>2. ASSUME NEW i \in 1 .. m - 1 PROVE d.reply[i] = Answer(d, (n + 1) + i)
      <4>1. i + 1 \in 1 .. m /\ n + (i + 1) = (n + 1) + i
        BY <1>1, <2>2
      <4>2. d.reply[i] = c.reply[i + 1] /\ c.reply[i + 1] = Answer(c, n + (i + 1))
        BY <2>1, <2>4, <2>7, <4>1
      <4> QED BY <2>6, <4>1, <4>2
    <3>3. d.phase = "Reply" /\ Len(d.reply) = m - 1
      BY <2>4, <2>7
    <3> HIDE DEF m
    <3>4. Told(d, n + 1)
      BY <2>2, <3>1, <3>2, <3>3 DEF Told
    <3> QED BY <1>2, <2>4, <2>5, <3>4 DEF d
  <2>8. CASE ~(m > 1)
    <3>1. n + 1 = AnswerLen /\ ~(n + 1 < AnswerLen)
      BY <1>1, <2>2, <2>8
    <3>2. d.phase = IF d.write_pending THEN "AwaitWriteToken" ELSE "Idle"
      BY <2>4, <2>8 DEF Kept
    <3>3. Told(d, n + 1)
      BY <2>2, <3>1, <3>2 DEF Told
    <3> QED BY <1>2, <2>4, <2>5, <3>3 DEF d
  <2> QED BY <2>7, <2>8
<1>3. CASE ~(n < AnswerLen)
  <2>1. n = AnswerLen
    BY <1>1, <1>3
  <2>2. c.phase = "AwaitWriteToken" \/ c.phase = "Idle"
    BY <2>1 DEF Told
  <2> QED BY <1>3, <2>2, TakenIdle, TakenAwaiting
<1> QED BY <1>2, <1>3

\* What BeginReply makes of the driver's block commands.
LEMMA ToldAtFirst ==
    ASSUME NEW c \in Cards, ~c.app_cmd_pending, c.index = cmd, cmd \in {17, 24}, c.arg = block
    PROVE  Told(BeginReply(c), 0)
<1> DEFINE d == BeginReply(c)
<1>0. d.phase = "Reply" /\ d.blocks = c.blocks
  BY Begun
<1>1. /\ <<R1_READY>> \in Seq(Byte) /\ Len(<<R1_READY>>) = 1 /\ <<R1_READY>>[1] = R1_READY
      /\ IDLE \in Byte
  BY OneSeq, Bytes
<1>2. CASE cmd = 24
  <2>a. d.reply = <<IDLE>> \o <<R1_READY>>
    BY <1>2, Begun
  <2>b. AnswerLen = 2
    BY <1>2, AnswerLens
  <2>1. d.reply = <<IDLE>> \o <<R1_READY>> /\ AnswerLen = 2
    BY <2>a, <2>b
  <2>2. Len(d.reply) = 2 /\ d.reply[1] = IDLE /\ d.reply[2] = R1_READY
    <3>1. /\ Len(<<IDLE>> \o <<R1_READY>>) = 2 /\ (<<IDLE>> \o <<R1_READY>>)[1] = IDLE
          /\ (<<IDLE>> \o <<R1_READY>>)[2] = R1_READY
      BY <1>1, ReplySeq
    <3> QED BY <2>1, <3>1
  <2>3. Answer(d, 1) = IDLE /\ Answer(d, 2) = R1_READY
    BY SdAssumption DEF Answer
  <2>4. \A i \in 1 .. 2 : d.reply[i] = Answer(d, i)
    BY <2>2, <2>3
  <2> HIDE DEF d
  <2> QED BY <1>0, <2>1, <2>2, <2>4, ToldNone DEF d
<1>3. CASE cmd = 17
  <2> DEFINE s == <<R1_READY>> \o BlockRead(c)
  <2>1. d.reply = <<IDLE>> \o s
    BY <1>3, Begun
  <2>2. /\ s \in Seq(Byte) /\ Len(s) = 1 + Len(BlockRead(c)) /\ Len(BlockRead(c)) \in Nat
        /\ \A i \in 1 .. 1 + Len(BlockRead(c)) :
             s[i] = IF i <= 1 THEN <<R1_READY>>[i] ELSE BlockRead(c)[i - 1]
    BY <1>1, BlockReadShape, ConcatProperties, LenProperties
  <2> HIDE DEF s
  <2>3. /\ Len(d.reply) = Len(s) + 1 /\ d.reply[1] = IDLE
        /\ \A i \in 1 .. Len(s) : d.reply[i + 1] = s[i]
    BY <2>1, <2>2, ReplySeq
  <2>4. Answer(d, 1) = IDLE /\ Answer(d, 2) = R1_READY
    BY SdAssumption DEF Answer
  <2>5. s[1] = R1_READY /\ d.reply[2] = s[1]
    BY <1>1, <2>2, <2>3
  <2>6. CASE block < NBlocks
    <3>1. /\ Len(BlockRead(c)) = BlockSize + 3 /\ BlockRead(c)[1] = TOKEN_START
          /\ \A i \in 1 .. BlockSize : BlockRead(c)[i + 1] = c.blocks[block][i]
          /\ BlockRead(c)[BlockSize + 2] = IDLE /\ BlockRead(c)[BlockSize + 3] = IDLE
      BY <2>6, BlockReadShape
    <3>2. BlockSize \in Nat \ {0}
      BY SdAssumption
    <3>3. ASSUME NEW i \in 3 .. BlockSize + 5 PROVE d.reply[i] = BlockRead(c)[i - 2]
      <4>1. i - 1 \in 1 .. Len(s) /\ i - 1 \in 1 .. 1 + Len(BlockRead(c)) /\ ~(i - 1 <= 1)
        BY <2>2, <3>1, <3>2
      <4>2. d.reply[(i - 1) + 1] = s[i - 1] /\ s[i - 1] = BlockRead(c)[(i - 1) - 1]
        BY <2>2, <2>3, <4>1
      <4>3. (i - 1) + 1 = i /\ (i - 1) - 1 = i - 2
        BY <3>2
      <4> QED BY <4>2, <4>3
    <3>4. ASSUME NEW i \in 1 .. BlockSize + 5 PROVE d.reply[i] = Answer(d, i)
      <4>1. CASE i = 1
        BY <2>3, <2>4, <4>1
      <4>2. CASE i = 2
        BY <2>4, <2>5, <4>2
      <4>3. CASE i = 3
        <5>1. d.reply[i] = BlockRead(c)[1]
          BY <3>2, <3>3, <4>3
        <5>2. Answer(d, 3) = TOKEN_START
          BY DEF Answer
        <5> QED BY <3>1, <4>3, <5>1, <5>2
      <4>4. CASE i \in 4 .. BlockSize + 3
        <5>1. i - 3 \in 1 .. BlockSize /\ i \in 3 .. BlockSize + 5 /\ (i - 3) + 1 = i - 2
          BY <3>2, <4>4
        <5>2. d.reply[i] = BlockRead(c)[i - 2] /\ BlockRead(c)[(i - 3) + 1] = c.blocks[block][i - 3]
          BY <3>1, <3>3, <5>1
        <5>3. Answer(d, i) = d.blocks[block][i - 3]
          BY <4>4 DEF Answer
        <5> QED BY <1>0, <5>1, <5>2, <5>3
      <4>5. CASE i \in {BlockSize + 4, BlockSize + 5}
        <5>1. /\ i \in 3 .. BlockSize + 5 /\ i - 2 \in {BlockSize + 2, BlockSize + 3}
              /\ i # 2 /\ i # 3 /\ i \notin 4 .. BlockSize + 3
          BY <3>2, <4>5
        <5>2. d.reply[i] = IDLE
          BY <3>1, <3>3, <5>1
        <5>3. Answer(d, i) = IDLE
          BY <5>1 DEF Answer
        <5> QED BY <5>2, <5>3
      <4> QED BY <3>2, <4>1, <4>2, <4>3, <4>4, <4>5
    <3>5. Len(d.reply) = BlockSize + 5 /\ AnswerLen = BlockSize + 5
      BY <1>3, <2>2, <2>3, <2>6, <3>1, <3>2, AnswerLens
    <3> HIDE DEF d
    <3> QED BY <1>0, <3>4, <3>5, ToldNone DEF d
  <2>7. CASE ~(block < NBlocks)
    <3>1. BlockRead(c) = <<>> /\ AnswerLen = 2
      BY <1>3, <2>7, BlockReadShape, AnswerLens
    <3>2. Len(d.reply) = 2
      BY <2>2, <2>3, <3>1, EmptySeq
    <3>3. \A i \in 1 .. 2 : d.reply[i] = Answer(d, i)
      BY <2>3, <2>4, <2>5
    <3> HIDE DEF d
    <3> QED BY <1>0, <3>1, <3>2, <3>3, ToldNone DEF d
  <2> QED BY <2>6, <2>7
<1> QED BY <1>2, <1>3

\* A byte that arrives is read after the others.
LEMMA ReadNext ==
    ASSUME NEW r \in Seq(Byte), NEW m \in Byte, Len(got) \in Nat, NEW k, Len(got) + Len(r) = k
    PROVE  /\ Len(got) + Len(Append(r, m)) = k + 1
           /\ \A i \in 1 .. k : ReadAt(Append(r, m), i) = ReadAt(r, i)
           /\ ReadAt(Append(r, m), k + 1) = m
<1>1. /\ Len(r) \in Nat /\ Len(Append(r, m)) = Len(r) + 1
      /\ \A i \in 1 .. Len(r) : Append(r, m)[i] = r[i]
      /\ Append(r, m)[Len(r) + 1] = m
  BY AppendProperties, LenProperties
<1>2. ASSUME NEW i \in 1 .. k PROVE ReadAt(Append(r, m), i) = ReadAt(r, i)
  <2>1. CASE i <= Len(got)
    BY <2>1 DEF ReadAt
  <2>2. CASE ~(i <= Len(got))
    <3>1. i - Len(got) \in 1 .. Len(r)
      BY <1>1, <2>2
    <3> QED BY <1>1, <2>2, <3>1 DEF ReadAt
  <2> QED BY <2>1, <2>2
<1>3. ReadAt(Append(r, m), k + 1) = m
  <2>1. ~(k + 1 <= Len(got)) /\ (k + 1) - Len(got) = Len(r) + 1
    BY <1>1
  <2> QED BY <1>1, <2>1 DEF ReadAt
<1> QED BY <1>1, <1>2, <1>3

\* A byte of a command.
LEMMA FrameStep ==
    ASSUME DriverInv, pc = "sent", NEW c \in Cards, NEW k \in 0 .. ArgBytes + 1,
           InFrame(c, k), Ready => ~c.app_cmd_pending,
           NEW d, d = Taken(c, Sending[k + 1])
    PROVE  InFrame(d, k + 1) /\ d.blocks = c.blocks /\ (Ready => ~d.app_cmd_pending)
<1>0. /\ Sending \in Seq(Byte) /\ Len(Sending) = ArgBytes + 2
      /\ Sending[1] = 64 + cmd /\ Sending[ArgBytes + 1] = block
      /\ ArgBytes \in Nat \ {0} /\ cmd \in 0 .. 63 /\ block \in Byte
  BY SendingShape, SdAssumption DEF DriverInv
<1>1. k + 1 \in 1 .. ArgBytes + 2 /\ Sending[k + 1] \in Byte
  BY <1>0, ElementOfSeq
<1>2. CASE k = 0
  <2>1. c.phase = "Idle" /\ k + 1 = 1
    BY <1>2 DEF InFrame
  <2>a. d = Taken(c, 64 + cmd)
    BY <1>0, <2>1
  <2>2. d.phase = "Command" /\ d.index = cmd /\ d.taken = 0 /\ Kept(c, d)
    <3>1. \A i \in 0 .. 63 : \A e : e = Taken(c, 64 + i) =>
            e.phase = "Command" /\ e.index = i /\ e.taken = 0 /\ Kept(c, e)
      BY <2>1, TakenIdle
    <3> QED BY <1>0, <2>a, <3>1, Zenon
  <2>3. 1 \in 1 .. ArgBytes + 1 /\ 1 # 0 /\ 1 # ArgBytes + 1 /\ 1 # ArgBytes + 2 /\ 1 - 1 = 0
    BY <1>0
  <2> QED BY <2>1, <2>2, <2>3 DEF InFrame, Kept
<1>3. CASE k \in 1 .. ArgBytes
  <2>1. c.phase = "Command" /\ c.index = cmd /\ c.taken = k - 1
    BY <1>0, <1>3 DEF InFrame
  <2>2. /\ k - 1 < ArgBytes /\ (k - 1) + 1 = (k + 1) - 1
        /\ k + 1 \in 1 .. ArgBytes + 1 /\ k + 1 # 0 /\ k + 1 # ArgBytes + 2
        /\ k + 1 = ArgBytes + 1 => Sending[k + 1] = block
    BY <1>0, <1>3
  <2>3. /\ d.phase = "Command" /\ d.index = cmd /\ d.taken = (k - 1) + 1
        /\ d.arg = Sending[k + 1] /\ Kept(c, d)
    BY <1>1, <2>1, <2>2, TakenArg
  <2> QED BY <2>2, <2>3 DEF InFrame, Kept
<1>4. CASE k = ArgBytes + 1
  <2>1. c.phase = "Command" /\ c.index = cmd /\ c.taken = ArgBytes /\ c.arg = block
    BY <1>0, <1>4 DEF InFrame
  <2>2. d = BeginReply(c)
    BY <1>0, <2>1 DEF Taken
  <2>3. d.phase = "Reply" /\ d.blocks = c.blocks /\ (cmd # 55 => ~d.app_cmd_pending)
    BY <2>1, <2>2, Begun
  <2>4. Ready => cmd \in {17, 24}
    BY DEF DriverInv
  <2>5. Ready => Told(d, 0)
    BY <2>1, <2>2, <2>4, ToldAtFirst
  <2>6. Writing => d.write_pending /\ d.write_block = block
    BY <2>1, <2>2, Begun DEF Writing
  <2>7. k + 1 # 0 /\ k + 1 \notin 1 .. ArgBytes + 1 /\ k + 1 # ArgBytes + 1
    BY <1>0, <1>4
  <2>8. InFrame(d, k + 1)
    BY <2>3, <2>5, <2>6, <2>7 DEF InFrame
  <2> QED BY <2>3, <2>4, <2>8
<1> QED BY <1>0, <1>2, <1>3, <1>4

\* A poll for the response.
LEMMA R1Step ==
    ASSUME DriverInv, pc = "r1", NEW c \in Cards, NEW r, InR1(c, r, 0),
           NEW d, d = Taken(c, IDLE), NEW q, ReadAt(q, 1) = Miso(c)
    PROVE  InR1(d, q, 1) /\ Kept(c, d)
<1>1. CASE Ready
  <2>1. PICK n \in 0 .. 2 : Told(c, n) /\ n < 2
    BY <1>1 DEF InR1
  <2>2. n < AnswerLen /\ n + 1 \in 0 .. 2 /\ n + 1 > 0
    BY <2>1, AnswerLens
  <2>3. Told(d, n + 1) /\ Miso(c) = Answer(c, n + 1) /\ Kept(c, d)
    BY <2>1, <2>2, ToldNext
  <2>4. ReadAt(q, 1) = Answer(d, n + 1)
    BY <2>3, KeptAnswer DEF Kept
  <2>5. \E m \in 0 .. 2 : /\ Told(d, m)
                          /\ 1 = 0 => m < 2
                          /\ 1 = 1 => m > 0 /\ ReadAt(q, 1) = Answer(d, m)
    BY <2>2, <2>3, <2>4
  <2> QED BY <1>1, <2>3, <2>5 DEF InR1, Kept
<1>2. CASE ~Ready
  <2>1. c.phase \in {"Reply", "AwaitWriteToken", "Idle"}
    BY <1>2 DEF InR1
  <2>2. d.phase \in {"Reply", "AwaitWriteToken", "Idle"} /\ Kept(c, d)
    <3>1. CASE c.phase = "Reply"
      BY <3>1, TakenReply, Bytes
    <3>2. CASE c.phase \in {"AwaitWriteToken", "Idle"}
      <4>1. d = c
        BY <3>2, TakenIdle, TakenAwaiting
      <4> QED BY <3>2, <4>1 DEF Kept
    <3> QED BY <2>1, <3>1, <3>2
  <2> QED BY <1>2, <2>2 DEF InR1, Kept, Writing
<1> QED BY <1>1, <1>2

\* A poll for the start token.
LEMMA TokenStep ==
    ASSUME DriverInv, pc = "token", NEW c \in Cards, NEW r, InToken(c, r, 0),
           NEW d, d = Taken(c, IDLE), NEW q, ReadAt(q, 1) = Miso(c)
    PROVE  InToken(d, q, 1) /\ Kept(c, d)
<1>0. cmd = 17 /\ BlockSize \in Nat
  BY SdAssumption DEF DriverInv, Reading
<1>1. Told(c, 2)
  BY DEF InToken
<1>2. CASE block < NBlocks
  <2>1. 2 < AnswerLen /\ 2 + 1 = 3
    BY <1>0, <1>2, AnswerLens
  <2>2. Told(d, 3) /\ Miso(c) = Answer(c, 3) /\ Kept(c, d)
    BY <1>1, <2>1, ToldNext
  <2>3. Answer(c, 3) = TOKEN_START
    BY DEF Answer
  <2> QED BY <1>2, <2>1, <2>2, <2>3 DEF InToken
<1>3. CASE ~(block < NBlocks)
  <2>1. ~(2 < AnswerLen)
    BY <1>3, AnswerLens
  <2>2. d = c /\ Miso(c) = IDLE
    BY <1>1, <2>1, ToldNext
  <2> QED BY <1>1, <1>3, <2>2 DEF InToken, Kept
<1> QED BY <1>2, <1>3

\* A byte of a block that is read, or of its checksum.
LEMMA DataStep ==
    ASSUME DriverInv, pc = "data", NEW c \in Cards, NEW r, NEW k \in 0 .. BlockSize + 1,
           InData(c, r, k), NEW d, d = Taken(c, IDLE),
           NEW q, \A i \in 1 .. k : ReadAt(q, i) = ReadAt(r, i), ReadAt(q, k + 1) = Miso(c)
    PROVE  InData(d, q, k + 1) /\ Kept(c, d)
<1>0. cmd = 17 /\ block < NBlocks /\ BlockSize \in Nat
  BY SdAssumption DEF DriverInv, Reading
<1>1. 3 + k < AnswerLen /\ (3 + k) + 1 = 3 + (k + 1)
  BY <1>0, AnswerLens
<1>2. Told(d, 3 + (k + 1)) /\ Miso(c) = Answer(c, 3 + (k + 1)) /\ Kept(c, d)
  BY <1>1, ToldNext DEF InData
<1>3. \A i : Answer(d, i) = Answer(c, i)
  BY <1>2, KeptAnswer DEF Kept
<1>4. ASSUME NEW i \in 1 .. k + 1 PROVE ReadAt(q, i) = Answer(d, 3 + i)
  <2>1. CASE i = k + 1
    BY <1>2, <1>3, <2>1
  <2>2. CASE i # k + 1
    <3>1. i \in 1 .. k
      BY <2>2
    <3>2. ReadAt(r, i) = Answer(c, 3 + i)
      BY <3>1 DEF InData
    <3> QED BY <1>3, <3>1, <3>2
  <2> QED BY <2>1, <2>2
<1> QED BY <1>2, <1>4 DEF InData

\* A byte of a block that is written, of its token or of its checksum.
LEMMA BlockStep ==
    ASSUME DriverInv, pc = "block", NEW c \in Cards, NEW k \in 0 .. BlockSize + 2,
           InBlock(c, k), NEW d, d = Taken(c, Sending[k + 1]),
           \A b \in 0 .. NBlocks - 1 : c.blocks[b] \in may[b]
    PROVE  /\ InBlock(d, k + 1) /\ (d.app_cmd_pending <=> c.app_cmd_pending)
           /\ \A b \in 0 .. NBlocks - 1 : d.blocks[b] \in may[b]
<1>0. /\ Sending \in Seq(Byte) /\ Len(Sending) = BlockSize + 3 /\ Sending[1] = TOKEN_START
      /\ \A i \in 1 .. BlockSize : Sending[i + 1] = data[i]
      /\ BlockSize \in Nat \ {0} /\ block \in Byte /\ data \in Block /\ NBlocks \in Nat
      /\ block < NBlocks => data \in may[block]
  BY SendingShape, SdAssumption DEF DriverInv
<1>1. k + 1 \in 1 .. BlockSize + 3 /\ Sending[k + 1] \in Byte
  BY <1>0, ElementOfSeq
<1>2. CASE k = 0
  <2>1. c.phase = "AwaitWriteToken" /\ c.write_block = block /\ k + 1 = 1
    BY <1>2 DEF InBlock
  <2>2. d.phase = "WriteData" /\ d.taken = 0 /\ d.write_buf = <<>> /\ Kept(c, d)
    BY <1>0, <2>1, TakenAwaiting
  <2>3. 1 # 0 /\ 1 # BlockSize + 3 /\ 1 - 1 = 0
    BY <1>0
  <2>4. \A i \in 1 .. Len(d.write_buf) : d.write_buf[i] = data[i]
    BY <2>2, EmptySeq
  <2> QED BY <2>1, <2>2, <2>3, <2>4 DEF InBlock, Kept
<1>3. CASE k \in 1 .. BlockSize + 2
  <2>0. /\ c.phase = "WriteData" /\ c.taken = k - 1 /\ c.write_block = block
        /\ \A i \in 1 .. Len(c.write_buf) : c.write_buf[i] = data[i]
    BY <1>3 DEF InBlock
  <2>1. CASE k \in 1 .. BlockSize
    <3>1. /\ k - 1 < BlockSize /\ (k - 1) + 1 = k /\ (k + 1) - 1 = k
          /\ k + 1 # 0 /\ k + 1 # BlockSize + 3 /\ Sending[k + 1] = data[k]
      BY <1>0, <2>1
    <3>2. /\ d.phase = "WriteData" /\ d.taken = k /\ Kept(c, d)
          /\ Len(c.write_buf) = k - 1 /\ Len(d.write_buf) = k
          /\ \A i \in 1 .. k - 1 : d.write_buf[i] = c.write_buf[i]
          /\ d.write_buf[k] = data[k]
      <4>1. c.taken < BlockSize
        BY <2>0, <3>1
      <4>2. /\ d.phase = "WriteData" /\ d.taken = c.taken + 1 /\ Kept(c, d)
            /\ Len(c.write_buf) = c.taken /\ Len(d.write_buf) = c.taken + 1
            /\ \A i \in 1 .. c.taken : d.write_buf[i] = c.write_buf[i]
            /\ d.write_buf[c.taken + 1] = Sending[k + 1]
        <5> DEFINE s == Sending[k + 1]
        <5>1. s \in Byte /\ d = Taken(c, s)
          BY <1>1
        <5> HIDE DEF s
        <5>2. /\ d.phase = "WriteData" /\ d.taken = c.taken + 1 /\ Kept(c, d)
              /\ Len(c.write_buf) = c.taken /\ Len(d.write_buf) = c.taken + 1
              /\ \A i \in 1 .. c.taken : d.write_buf[i] = c.write_buf[i]
              /\ d.write_buf[c.taken + 1] = s
          BY <2>0, <4>1, <5>1, TakenData
        <5> QED BY <5>2 DEF s
      <4> QED BY <2>0, <3>1, <4>2
    <3>3. ASSUME NEW i \in 1 .. k PROVE d.write_buf[i] = data[i]
      <4>1. i = k \/ i \in 1 .. k - 1
        BY <2>1
      <4> QED BY <2>0, <3>2, <4>1
    <3> QED BY <2>0, <3>1, <3>2, <3>3 DEF InBlock, Kept
  <2>2. CASE k = BlockSize + 1
    <3>1. /\ k - 1 = BlockSize /\ (k + 1) - 1 = (k - 1) + 1 /\ k + 1 # 0 /\ k + 1 # BlockSize + 3
      BY <1>0, <2>2
    <3>2. /\ d.phase = "WriteData" /\ d.taken = (k - 1) + 1 /\ Kept(c, d)
          /\ d.write_buf = c.write_buf
      BY <1>1, <2>0, <3>1, TakenWriting
    <3> QED BY <2>0, <3>1, <3>2 DEF InBlock, Kept
  <2>3. CASE k = BlockSize + 2
    <3>1. k - 1 > BlockSize /\ k + 1 # 0 /\ k + 1 \notin 1 .. BlockSize + 2 /\ k + 1 = BlockSize + 3
      BY <1>0, <2>3
    <3>2. /\ d.phase = "DataResponse" /\ d.write_block = block
          /\ d.app_cmd_pending <=> c.app_cmd_pending
          /\ c.write_buf \in Block
          /\ \A b \in 0 .. NBlocks - 1 :
               d.blocks[b] = IF b = block THEN c.write_buf ELSE c.blocks[b]
      BY <1>1, <2>0, <3>1, TakenWriting
    <3>3. c.write_buf = data
      <4>1. /\ c.write_buf \in Seq(Byte) /\ Len(c.write_buf) = BlockSize
            /\ data \in Seq(Byte) /\ Len(data) = BlockSize
        BY <1>0, <3>2, BlockSeq
      <4>2. \A i \in 1 .. Len(c.write_buf) : c.write_buf[i] = data[i]
        BY <2>0
      <4> QED BY <4>1, <4>2, SeqEqual
    <3>4. block < NBlocks => block \in 0 .. NBlocks - 1
      BY <1>0 DEF Byte
    <3>5. \A b \in 0 .. NBlocks - 1 : d.blocks[b] \in may[b]
      <4> TAKE b \in 0 .. NBlocks - 1
      <4>1. CASE b = block
        <5>1. block < NBlocks
          BY <1>0, <4>1
        <5> QED BY <1>0, <3>2, <3>3, <4>1, <5>1
      <4>2. CASE b # block
        BY <3>2, <4>2
      <4> QED BY <4>1, <4>2
    <3>6. block < NBlocks => d.blocks[block] = data
      BY <3>2, <3>3, <3>4
    <3> QED BY <3>1, <3>2, <3>5, <3>6 DEF InBlock
  <2> QED BY <1>0, <1>3, <2>1, <2>2, <2>3
<1> QED BY <1>0, <1>2, <1>3

\* The card's answer to a block.
LEMMA ResponseStep ==
    ASSUME NEW c \in Cards, InResponse(c, 0), NEW d, d = Taken(c, IDLE)
    PROVE  InResponse(d, 1) /\ Kept(c, d)
<1>1. c.phase = "DataResponse" /\ (block < NBlocks => c.blocks[block] = data)
  BY DEF InResponse
<1>2. d.phase = "Idle" /\ Kept(c, d)
  BY <1>1, TakenResponse, Bytes
<1> QED BY <1>1, <1>2 DEF InResponse, Kept

\* A word of a stage takes the card, and what came back, to the next byte of it.
LEMMA StageStep ==
    ASSUME DriverInv, NEW c, NEW r \in Seq(Byte), NEW k \in 0 .. Len(Sending) - 1,
           StageInv(c, cs, r, k), Len(got) \in Nat, keep => Len(r) < Depth,
           NEW d, d = Taken(c, Sending[k + 1]),
           NEW q, q = IF Len(r) < Depth THEN Append(r, Miso(c)) ELSE r
    PROVE  StageInv(d, cs, q, k + 1) /\ q \in Seq(Byte)
<1>0. c \in Cards
  BY DEF StageInv
<1>1. /\ Sending \in Seq(Byte) /\ Len(Sending) \in Nat /\ k + 1 \in 1 .. Len(Sending)
      /\ k \in Nat
  BY SendingShape
<1>2. Sending[k + 1] \in Byte
  BY <1>1, ElementOfSeq
<1>3. d \in Cards /\ Miso(c) \in Byte
  BY <1>0, <1>2, TakenTypes
<1>4. q \in Seq(Byte)
  BY <1>3, AppendProperties
<1>5. keep => /\ Len(got) + Len(q) = k + 1
              /\ \A i \in 1 .. k : ReadAt(q, i) = ReadAt(r, i)
              /\ ReadAt(q, k + 1) = Miso(c)
  <2>1. SUFFICES ASSUME keep
                 PROVE  /\ Len(got) + Len(q) = k + 1
                        /\ \A i \in 1 .. k : ReadAt(q, i) = ReadAt(r, i)
                        /\ ReadAt(q, k + 1) = Miso(c)
    OBVIOUS
  <2>2. q = Append(r, Miso(c)) /\ Len(got) + Len(r) = k
    BY <2>1 DEF StageInv
  <2> QED BY <1>3, <2>2, ReadNext
<1>6. /\ \A b \in 0 .. NBlocks - 1 : c.blocks[b] \in may[b]
      /\ Ready => ~c.app_cmd_pending
      /\ cs => c.phase = "Idle"
  BY DEF StageInv
<1>7. CASE pc = "released"
  <2>1. cs /\ ~keep /\ k = 0 /\ Sending[k + 1] = IDLE
    BY <1>1, <1>7, SendingShape DEF DriverInv
  <2>2. d = c
    BY <1>0, <1>6, <2>1, TakenIdle
  <2> QED BY <1>3, <1>4, <1>6, <1>7, <2>1, <2>2 DEF StageInv
<1>8. CASE pc = "sent"
  <2>1. ~cs /\ ~keep /\ k \in 0 .. ArgBytes + 1 /\ InFrame(c, k)
    BY <1>1, <1>8, SendingShape, SdAssumption DEF DriverInv, StageInv
  <2>2. InFrame(d, k + 1) /\ d.blocks = c.blocks /\ (Ready => ~d.app_cmd_pending)
    BY <1>0, <1>6, <1>8, <2>1, FrameStep
  <2> QED BY <1>3, <1>4, <1>6, <1>8, <2>1, <2>2 DEF StageInv
<1>9. CASE pc = "r1"
  <2>1. ~cs /\ keep /\ k = 0 /\ Sending[k + 1] = IDLE /\ InR1(c, r, 0)
    BY <1>1, <1>9, SendingShape DEF DriverInv, StageInv
  <2>2. InR1(d, q, 1) /\ Kept(c, d)
    BY <1>0, <1>5, <1>9, <2>1, R1Step
  <2> QED BY <1>3, <1>4, <1>5, <1>6, <1>9, <2>1, <2>2 DEF StageInv, Kept
<1>10. CASE pc = "token"
  <2>1. ~cs /\ keep /\ k = 0 /\ Sending[k + 1] = IDLE /\ InToken(c, r, 0)
    BY <1>1, <1>10, SendingShape DEF DriverInv, StageInv
  <2>2. InToken(d, q, 1) /\ Kept(c, d)
    BY <1>0, <1>5, <1>10, <2>1, TokenStep
  <2> QED BY <1>3, <1>4, <1>5, <1>6, <1>10, <2>1, <2>2 DEF StageInv, Kept
<1>11. CASE pc = "data"
  <2>1. ~cs /\ keep /\ k \in 0 .. BlockSize + 1 /\ Sending[k + 1] = IDLE /\ InData(c, r, k)
    <3>1. Sending = [i \in 1 .. BlockSize + 2 |-> IDLE] /\ Len(Sending) = BlockSize + 2
      BY <1>11, SendingShape DEF Sending
    <3>2. k + 1 \in 1 .. BlockSize + 2
      BY <1>1, <3>1
    <3>3. k \in 0 .. BlockSize + 1
      BY <3>2, SdAssumption
    <3> QED BY <1>11, <3>1, <3>2, <3>3 DEF DriverInv, StageInv
  <2>2. InData(d, q, k + 1) /\ Kept(c, d)
    BY <1>0, <1>5, <1>11, <2>1, DataStep
  <2> QED BY <1>3, <1>4, <1>5, <1>6, <1>11, <2>1, <2>2 DEF StageInv, Kept
<1>12. CASE pc = "block"
  <2>1. ~cs /\ ~keep /\ k \in 0 .. BlockSize + 2 /\ InBlock(c, k)
    BY <1>1, <1>12, SendingShape, SdAssumption DEF DriverInv, StageInv
  <2>2. /\ InBlock(d, k + 1) /\ (d.app_cmd_pending <=> c.app_cmd_pending)
        /\ \A b \in 0 .. NBlocks - 1 : d.blocks[b] \in may[b]
    BY <1>0, <1>6, <1>12, <2>1, BlockStep
  <2> QED BY <1>3, <1>4, <1>6, <1>12, <2>1, <2>2 DEF StageInv
<1>13. CASE pc = "response"
  <2>1. ~cs /\ keep /\ k = 0 /\ Sending[k + 1] = IDLE /\ InResponse(c, 0)
    BY <1>1, <1>13, SendingShape DEF DriverInv, StageInv
  <2>2. InResponse(d, 1) /\ Kept(c, d)
    BY <1>0, <2>1, ResponseStep
  <2> QED BY <1>3, <1>4, <1>5, <1>6, <1>13, <2>1, <2>2 DEF StageInv, Kept
<1>14. CASE pc = "boot"
  BY <1>1, <1>14, SendingShape
<1> QED BY <1>7, <1>8, <1>9, <1>10, <1>11, <1>12, <1>13, <1>14 DEF DriverInv

\* The chip select reaches the card before the words do.
LEMMA ObserveStep ==
    ASSUME DriverInv, NEW c, NEW h, NEW r, NEW k, StageInv(c, h, r, k),
           NEW d, d = IF cs /\ ~h THEN Deselect(c) ELSE c
    PROVE  StageInv(d, cs, r, k)
<1>1. CASE pc = "released"
  <2>0. c \in Cards /\ cs /\ ~keep
    BY <1>1 DEF StageInv, DriverInv
  <2>1. <<>> \in Seq(Byte) /\ Len(<<>>) = 0 /\ 0 <= BlockSize
    BY EmptySeq, SdAssumption
  <2>2. /\ Deselect(c) \in Cards /\ Deselect(c).phase = "Idle"
        /\ Deselect(c).app_cmd_pending <=> c.app_cmd_pending
        /\ Deselect(c).blocks = c.blocks
    BY <2>0, <2>1 DEF Deselect, Cards, Phase
  <2>3. /\ d \in Cards /\ d.phase = "Idle" /\ d.blocks = c.blocks
        /\ d.app_cmd_pending <=> c.app_cmd_pending
    <3>1. CASE h
      BY <2>0, <3>1 DEF StageInv
    <3>2. CASE ~h
      BY <2>0, <2>2, <3>2
    <3> QED BY <3>1, <3>2
  <2> QED BY <1>1, <2>0, <2>3 DEF StageInv
<1>2. CASE pc # "released"
  <2>1. ~cs /\ d = c
    BY <1>2 DEF DriverInv
  <2> QED BY <1>2, <2>1 DEF StageInv
<1> QED BY <1>1, <1>2

-----------------------------------------------------------------------------
(* The steps.                                                              *)

\* The driver's state is what a stage's invariant is about.
LEMMA StageKept ==
    ASSUME NEW c, NEW h, NEW r, NEW k, StageInv(c, h, r, k),
           UNCHANGED <<pc, step, cmd, block, data, got, keep, may>>,
           card' = c, cs_high' = h, rx' = r, Gone' = k
    PROVE  StageInv(card, cs_high, rx, Gone)'
<1>1. /\ pc' = pc /\ step' = step /\ cmd' = cmd /\ block' = block /\ data' = data
      /\ got' = got /\ keep' = keep /\ may' = may
  OBVIOUS
<1> HIDE DEF Gone
<1>2. /\ card' \in Cards
      /\ h => card'.phase = "Idle"
      /\ h => pc' \in {"boot", "released"} \/ (pc' = "sent" /\ k = 0)
      /\ pc' = "released" /\ k = 1 => h
      /\ Ready' => ~card'.app_cmd_pending
      /\ \A b \in 0 .. NBlocks - 1 : card'.blocks[b] \in may'[b]
      /\ keep' => Len(got') + Len(r) = k
  BY <1>1 DEF StageInv, Ready
<1>3. pc' = "sent" => InFrame(card, Gone)'
  BY <1>1 DEF StageInv, InFrame, Told, Answer, AnswerLen, Ready, Writing
<1>4. pc' = "r1" => InR1(card, rx, Gone)'
  BY <1>1 DEF StageInv, InR1, Told, Answer, AnswerLen, ReadAt, Ready, Writing
<1>5. pc' = "token" => InToken(card, rx, Gone)'
  BY <1>1 DEF StageInv, InToken, Told, Answer, AnswerLen, ReadAt
<1>6. pc' = "data" => InData(card, rx, Gone)'
  BY <1>1 DEF StageInv, InData, Told, Answer, AnswerLen, ReadAt
<1>7. pc' = "block" => InBlock(card, Gone)'
  BY <1>1 DEF StageInv, InBlock
<1>8. pc' = "response" => InResponse(card, Gone)'
  BY <1>1 DEF StageInv, InResponse
<1> QED BY <1>2, <1>3, <1>4, <1>5, <1>6, <1>7, <1>8 DEF StageInv, Cards

\* Words and answers, as long as the driver has to wait.
LEMMA Lengths ==
    ASSUME SdInv
    PROVE  /\ Len(tx) \in Nat /\ Len(out) \in Nat /\ Len(rx) \in Nat /\ Len(got) \in Nat
           /\ Len(Sending) \in Nat /\ Depth \in Nat \ {0}
           /\ Gone \in Nat /\ Gone + Len(tx) + Len(out) = Len(Sending)
<1>1. /\ Len(tx) \in Nat /\ Len(out) \in Nat /\ Len(rx) \in Nat /\ Len(got) \in Nat
  BY LenProperties DEF SdInv, TypeOK
<1>2. Len(Sending) \in Nat /\ Depth \in Nat \ {0}
  BY SendingShape, SdAssumption DEF SdInv
<1>3. Gone >= 0
  BY DEF SdInv, QueueInv
<1>4. Gone \in Nat /\ Gone + Len(tx) + Len(out) = Len(Sending)
  BY <1>1, <1>2, <1>3 DEF Gone
<1> QED BY <1>1, <1>2, <1>4

\* The wires that saw every word under its chip select, and what is received
\* when a word meets one.
Wires == [card : Cards, cs_high : {cs}, rx : Seq(Byte), misframed : {FALSE}]
Back(v) == IF Len(v.rx) < Depth THEN Append(v.rx, Miso(v.card)) ELSE v.rx

\* What an exchange makes of a wire whose word was written under its chip select.
LEMMA ExchangeIs ==
    ASSUME NEW word, word.cs = cs,
           NEW v \in Wires,
           NEW d \in Cards, d = Taken(v.card, word.byte),
           NEW q \in Seq(Byte), q = Back(v),
           NEW x, x = Exchange(v, word)
    PROVE  /\ x \in Wires
           /\ x.card = d /\ x.rx = q
<1>1. v.misframed = FALSE /\ v.cs_high = cs
  BY DEF Wires
<1>2. (v.misframed \/ word.cs # v.cs_high) = FALSE
  BY <1>1
<1>3. x = [v EXCEPT !.card = Taken(v.card, word.byte),
                    !.rx = IF Len(v.rx) < Depth THEN Append(v.rx, Miso(v.card)) ELSE v.rx,
                    !.misframed = (v.misframed \/ word.cs # v.cs_high)]
  BY DEF Exchange
<1>4. x = [v EXCEPT !.card = d, !.rx = q, !.misframed = FALSE]
  BY <1>2, <1>3 DEF Back
<1> QED BY <1>4 DEF Wires

LEMMA ObservedIs ==
    ASSUME NEW x, x = ObservePins(Wire, cs)
    PROVE  /\ x.card = IF cs /\ ~cs_high THEN Deselect(card) ELSE card
           /\ x.cs_high = cs /\ x.rx = rx /\ x.misframed = misframed
           /\ \A S, R : x.card \in S /\ rx \in R =>
                x \in [card : S, cs_high : {cs}, rx : R, misframed : {misframed}]
<1> DEFINE a == IF cs /\ ~cs_high THEN Deselect(card) ELSE card
<1>1. Wire.card = card /\ Wire.cs_high = cs_high
  BY DEF Wire
<1>2. x = [Wire EXCEPT !.card = a, !.cs_high = cs]
  BY <1>1 DEF ObservePins
<1> HIDE DEF a
<1>3. x.card = a /\ x.cs_high = cs /\ x.rx = rx /\ x.misframed = misframed
  BY <1>2 DEF Wire
<1>4. ASSUME NEW S, NEW R, a \in S, rx \in R
      PROVE  x \in [card : S, cs_high : {cs}, rx : R, misframed : {misframed}]
  <2>1. Wire \in [card : S \cup {card}, cs_high : {cs_high}, rx : R, misframed : {misframed}]
    BY <1>4 DEF Wire
  <2> QED BY <1>2, <1>4, <2>1
<1> QED BY <1>3, <1>4 DEF a

LEMMA QuantumStep ==
    ASSUME SdInv, EndOfQuantum
    PROVE  SdInv'
<1>0. /\ Len(tx) \in Nat /\ Len(out) \in Nat /\ Len(rx) \in Nat /\ Len(got) \in Nat
      /\ Len(Sending) \in Nat /\ Depth \in Nat \ {0}
      /\ Gone \in Nat /\ Gone + Len(tx) + Len(out) = Len(Sending)
  BY Lengths
<1>1. PICK n \in 0 .. Len(tx) :
        /\ card' = Ticked(n).card /\ cs_high' = Ticked(n).cs_high
        /\ rx' = Ticked(n).rx /\ misframed' = Ticked(n).misframed
        /\ tx' = SubSeq(tx, n + 1, Len(tx))
        /\ UNCHANGED <<cs, driverVars, bounds>>
  BY DEF EndOfQuantum
<1>2. /\ TypeOK /\ ~misframed /\ DriverInv /\ QueueInv
      /\ StageInv(card, cs_high, rx, Gone)
      /\ tx \in Seq([byte : Byte, cs : BOOLEAN]) /\ rx \in Seq(Byte) /\ Len(rx) <= Depth
      /\ cs \in BOOLEAN /\ cs_high \in BOOLEAN /\ misframed \in BOOLEAN
      /\ out \in Seq(Byte) /\ got \in Seq(Byte) /\ keep \in BOOLEAN
      /\ may \in [0 .. NBlocks - 1 -> SUBSET Block] /\ Len(tx) <= Depth
  BY DEF SdInv, TypeOK
<1> DEFINE w == ObservePins(Wire, cs)
           G == [i \in 0 .. n |->
                   {v \in Wires : /\ StageInv(v.card, cs, v.rx, Gone + i)
                                  /\ Len(v.rx) <= Depth
                                  /\ keep => (Len(tx) - i) + Len(v.rx) <= Depth}]
<1>3. w \in G[0]
  <2>1. /\ w.card = IF cs /\ ~cs_high THEN Deselect(card) ELSE card
        /\ w.cs_high = cs /\ w.rx = rx /\ w.misframed = misframed
        /\ \A S, R : w.card \in S /\ rx \in R =>
             w \in [card : S, cs_high : {cs}, rx : R, misframed : {misframed}]
    <3> HIDE DEF w
    <3>1. w = ObservePins(Wire, cs)
      BY DEF w
    <3> QED BY <3>1, ObservedIs
  <2> HIDE DEF w
  <2>2. StageInv(w.card, cs, rx, Gone)
    BY <1>2, <2>1, ObserveStep
  <2>3. w.card \in Cards
    BY <2>2 DEF StageInv
  <2>4. w \in Wires
    <3>1. misframed = FALSE
      BY <1>2
    <3> QED BY <1>2, <2>1, <2>3, <3>1 DEF Wires
  <2>5. keep => (Len(tx) - 0) + Len(rx) <= Depth
    BY <1>0, <1>2 DEF QueueInv
  <2>6. Gone + 0 = Gone /\ 0 \in 0 .. n
    BY <1>0, <1>1
  <2> QED BY <1>2, <2>1, <2>2, <2>4, <2>5, <2>6
<1>4. ASSUME NEW i \in 1 .. n, NEW v \in G[i - 1] PROVE Exchange(v, tx[i]) \in G[i]
  <2> DEFINE k == Gone + (i - 1)
             d == Taken(v.card, tx[i].byte)
             q == Back(v)
             x == Exchange(v, tx[i])
  <2>0. i - 1 \in 0 .. n /\ i \in 0 .. n /\ i \in 1 .. Len(tx)
    BY <1>0, <1>1
  <2>1. /\ v \in Wires /\ StageInv(v.card, cs, v.rx, k) /\ Len(v.rx) <= Depth
        /\ keep => (Len(tx) - (i - 1)) + Len(v.rx) <= Depth
    BY <2>0
  <2>2. tx[i] = [byte |-> Sending[Gone + i], cs |-> cs]
    BY <1>2, <2>0 DEF QueueInv
  <2>3. /\ k \in 0 .. Len(Sending) - 1 /\ k + 1 = Gone + i
    BY <1>0, <2>0
  <2>4. v.rx \in Seq(Byte) /\ Len(v.rx) \in Nat
    BY <2>1, LenProperties DEF Wires
  <2>5. keep => Len(v.rx) < Depth
    BY <1>0, <2>0, <2>1, <2>4
  <2>6. tx[i].byte = Sending[k + 1] /\ tx[i].cs = cs
    BY <2>2, <2>3
  <2> HIDE DEF k, d, q, x
  <2>8. StageInv(d, cs, q, k + 1) /\ q \in Seq(Byte)
    BY <1>0, <1>2, <2>1, <2>3, <2>4, <2>5, <2>6, StageStep DEF d, q, Back
  <2>9. d \in Cards
    BY <2>8 DEF StageInv
  <2>10. x \in Wires /\ x.card = d /\ x.rx = q
    <3>1. v \in Wires /\ q \in Seq(Byte)
      BY <2>1, <2>8
    <3>2. d = Taken(v.card, tx[i].byte) /\ x = Exchange(v, tx[i]) /\ q = Back(v)
      BY DEF d, x, q
    <3> QED BY <2>6, <2>9, <3>1, <3>2, ExchangeIs
  <2>11. Len(q) <= Depth /\ Len(q) <= Len(v.rx) + 1
    <3>1. CASE Len(v.rx) < Depth
      <4>1. q = Append(v.rx, Miso(v.card)) /\ Miso(v.card) \in Byte
        BY <2>1, <3>1, TakenTypes, Bytes DEF q, Back, StageInv, Wires
      <4>2. Len(q) = Len(v.rx) + 1
        BY <2>4, <4>1, AppendProperties
      <4> QED BY <1>0, <2>4, <3>1, <4>2
    <3>2. CASE ~(Len(v.rx) < Depth)
      <4>1. q = v.rx
        BY <3>2 DEF q, Back
      <4> QED BY <2>1, <2>4, <4>1
    <3> QED BY <3>1, <3>2
  <2>12. keep => (Len(tx) - i) + Len(q) <= Depth
    <3>1. Len(q) \in Nat
      BY <2>8, LenProperties
    <3> QED BY <1>0, <2>0, <2>1, <2>4, <2>11, <3>1
  <2>13. x \in G[i]
    BY <2>0, <2>3, <2>8, <2>10, <2>11, <2>12
  <2> QED BY <2>13 DEF x
<1>5. Ticked(n) \in G[n]
  <2> HIDE DEF w, G
  <2>1. n \in Nat
    BY <1>0, <1>1
  <2>2. Drained(w, n) \in G[n]
    BY <1>3, <1>4, <2>1, DrainedIn
  <2> QED BY <2>2 DEF Ticked, w
<1>6. /\ card' \in Cards /\ cs_high' = cs /\ rx' \in Seq(Byte) /\ misframed' = FALSE
      /\ StageInv(card', cs, rx', Gone + n) /\ Len(rx') <= Depth
      /\ keep => (Len(tx) - n) + Len(rx') <= Depth
  <2>1. n \in 0 .. n
    BY <1>0, <1>1
  <2> DEFINE v == Ticked(n)
  <2> HIDE DEF v
  <2>2. v \in G[n]
    BY <1>5 DEF v
  <2>3. /\ v \in Wires /\ StageInv(v.card, cs, v.rx, Gone + n) /\ Len(v.rx) <= Depth
        /\ keep => (Len(tx) - n) + Len(v.rx) <= Depth
    BY <2>1, <2>2
  <2>4. card' = v.card /\ cs_high' = v.cs_high /\ rx' = v.rx /\ misframed' = v.misframed
    BY <1>1 DEF v
  <2> QED BY <2>3, <2>4 DEF Wires
<1>7. /\ tx' \in Seq([byte : Byte, cs : BOOLEAN]) /\ Len(tx') = Len(tx) - n
      /\ \A i \in 1 .. Len(tx) - n : tx'[i] = tx[n + i]
  <2>1. n + 1 \in Int /\ Len(tx) \in Int /\ \A i \in n + 1 .. Len(tx) : i \in 1 .. Len(tx)
    BY <1>0, <1>1
  <2>2. \A i \in n + 1 .. Len(tx) : tx[i] \in [byte : Byte, cs : BOOLEAN]
    BY <1>2, <2>1, ElementOfSeq
  <2>3. /\ tx' \in Seq([byte : Byte, cs : BOOLEAN])
        /\ Len(tx') = IF n + 1 <= Len(tx) THEN Len(tx) - (n + 1) + 1 ELSE 0
        /\ \A i \in 1 .. Len(tx) - (n + 1) + 1 : tx'[i] = tx[(n + 1) + i - 1]
    BY <1>1, <2>1, <2>2, SubSeqProperties
  <2>4. /\ (IF n + 1 <= Len(tx) THEN Len(tx) - (n + 1) + 1 ELSE 0) = Len(tx) - n
        /\ Len(tx) - (n + 1) + 1 = Len(tx) - n
        /\ \A i \in 1 .. Len(tx) - n : (n + 1) + i - 1 = n + i
    BY <1>0, <1>1
  <2> QED BY <2>3, <2>4
<1>8. /\ cs' = cs /\ pc' = pc /\ step' = step /\ cmd' = cmd /\ block' = block
      /\ data' = data /\ out' = out /\ got' = got /\ keep' = keep /\ may' = may
  BY <1>1 DEF driverVars
<1>9. Sending' = Sending
  BY <1>8 DEF Sending
<1>10. Gone' = Gone + n
  <2>1. Gone' = Len(Sending) - (Len(tx) - n) - Len(out)
    BY <1>7, <1>8, <1>9 DEF Gone
  <2>2. Gone = Len(Sending) - Len(tx) - Len(out)
    BY DEF Gone
  <2>3. Len(Sending) - (Len(tx) - n) - Len(out) = (Len(Sending) - Len(tx) - Len(out)) + n
    BY <1>0, <1>1
  <2> QED BY <2>1, <2>2, <2>3
<1>11. StageInv(card, cs_high, rx, Gone)'
  BY <1>6, <1>8, <1>10, StageKept
<1>12. DriverInv'
  BY <1>2, <1>8 DEF DriverInv, Ready, Reading, Writing
<1>13. QueueInv'
  <2>1. Gone' >= 0
    BY <1>0, <1>1, <1>10
  <2>2. ASSUME NEW i \in 1 .. Len(tx') PROVE tx'[i] = [byte |-> Sending'[Gone' + i], cs |-> cs']
    <3>0. i \in 1 .. Len(tx) - n
      BY <1>7
    <3>1. i \in 1 .. Len(tx) - n /\ n + i \in 1 .. Len(tx) /\ Gone + (n + i) = (Gone + n) + i
      <4> HIDE DEF Gone
      <4> QED BY <1>0, <1>1, <3>0
    <3>2. tx[n + i] = [byte |-> Sending[Gone + (n + i)], cs |-> cs]
      BY <1>2, <3>1 DEF QueueInv
    <3> HIDE DEF Gone
    <3> QED BY <1>7, <1>8, <1>9, <1>10, <3>1, <3>2
  <2>3. ASSUME NEW i \in 1 .. Len(out') PROVE out'[i] = Sending'[(Gone' + Len(tx')) + i]
    <3>1. (Gone + n) + (Len(tx) - n) = Gone + Len(tx)
      BY <1>0, <1>1
    <3>2. out[i] = Sending[(Gone + Len(tx)) + i]
      BY <1>2, <1>8 DEF QueueInv
    <3> HIDE DEF Gone
    <3> QED BY <1>7, <1>8, <1>9, <1>10, <3>1, <3>2
  <2>4. keep' => Len(tx') + Len(rx') <= Depth
    BY <1>6, <1>7, <1>8
  <2> HIDE DEF Gone
  <2> QED BY <2>1, <2>2, <2>3, <2>4 DEF QueueInv
<1>14. TypeOK'
  <2>1. Len(tx') <= Depth
    BY <1>0, <1>1, <1>2, <1>7
  <2>2. /\ card' \in [phase : Phase, index : 0 .. 63, taken : Nat, arg : Byte,
                       reply : Seq(Byte), app_cmd_pending : BOOLEAN,
                       acmd41_busy_left : 0 .. Busy, initialised : BOOLEAN,
                       write_block : Byte, write_pending : BOOLEAN,
                       write_buf : Seq(Byte), blocks : [0 .. NBlocks - 1 -> Block]]
        /\ Len(card'.write_buf) <= BlockSize
    BY <1>6 DEF Cards
  <2>3. cs_high' \in BOOLEAN /\ cs' \in BOOLEAN /\ misframed' \in BOOLEAN
    BY <1>2, <1>6, <1>8
  <2>4. /\ out' \in Seq(Byte) /\ got' \in Seq(Byte) /\ keep' \in BOOLEAN
        /\ may' \in [0 .. NBlocks - 1 -> SUBSET Block]
    BY <1>2, <1>8
  <2> QED BY <1>6, <1>7, <2>1, <2>2, <2>3, <2>4 DEF TypeOK
<1> QED BY <1>6, <1>11, <1>12, <1>13, <1>14 DEF SdInv

LEMMA InitOk == Init => SdInv
<1> SUFFICES ASSUME Init PROVE SdInv
  OBVIOUS
<1>1. NoBlock \in Block
  BY SdAssumption DEF NoBlock, Block, Byte
<1>2. \A S : <<>> \in Seq(S)
  BY EmptySeq
<1>3. Len(<<>>) = 0
  BY EmptySeq
<1>4. card \in Cards /\ card.phase = "Idle" /\ card.app_cmd_pending = FALSE
  <2>1. [b \in 0 .. NBlocks - 1 |-> NoBlock] \in [0 .. NBlocks - 1 -> Block]
    BY <1>1
  <2>2. Busy \in 0 .. Busy /\ 0 \in Byte /\ 0 <= BlockSize
    BY SdAssumption DEF Byte
  <2> QED BY <1>2, <1>3, <2>1, <2>2 DEF Init, Cards, Phase
<1>5. card.blocks = [b \in 0 .. NBlocks - 1 |-> NoBlock]
  BY DEF Init
<1>6. \A b \in 0 .. NBlocks - 1 : card.blocks[b] \in may[b]
  BY <1>5 DEF Init
<1>7. Sending = <<>>
  BY DEF Init, Sending
<1>8. Gone = 0
  <2>1. Len(Sending) = 0 /\ Len(tx) = 0 /\ Len(out) = 0
    BY <1>3, <1>7 DEF Init
  <2> QED BY <2>1 DEF Gone
<1>9. QueueInv
  BY <1>3, <1>8 DEF Init, QueueInv
<1>10. DriverInv
  BY <1>1 DEF Init, DriverInv, Ready, Byte
<1>11. TypeOK
  <2>1. may \in [0 .. NBlocks - 1 -> SUBSET Block]
    BY <1>1 DEF Init
  <2>2. /\ card \in [phase : Phase, index : 0 .. 63, taken : Nat, arg : Byte,
                     reply : Seq(Byte), app_cmd_pending : BOOLEAN,
                     acmd41_busy_left : 0 .. Busy, initialised : BOOLEAN,
                     write_block : Byte, write_pending : BOOLEAN,
                     write_buf : Seq(Byte), blocks : [0 .. NBlocks - 1 -> Block]]
        /\ Len(card.write_buf) <= BlockSize
    BY <1>4 DEF Cards
  <2>3. 0 <= Depth
    BY SdAssumption
  <2>4. /\ cs_high \in BOOLEAN /\ cs \in BOOLEAN /\ misframed \in BOOLEAN
        /\ tx \in Seq([byte : Byte, cs : BOOLEAN]) /\ Len(tx) <= Depth
        /\ rx \in Seq(Byte) /\ Len(rx) <= Depth
        /\ out \in Seq(Byte) /\ got \in Seq(Byte) /\ keep \in BOOLEAN
    BY <1>2, <1>3, <2>3 DEF Init
  <2> QED BY <2>1, <2>2, <2>4 DEF TypeOK
<1>12. StageInv(card, cs_high, rx, Gone)
  BY <1>4, <1>6, <1>8 DEF Init, StageInv, Ready
<1>13. ~misframed
  BY DEF Init
<1> QED BY <1>9, <1>10, <1>11, <1>12, <1>13 DEF SdInv

LEMMA SendingBytes == DriverInv => Sending \in Seq(Byte) /\ Len(Sending) \in Nat
BY SendingShape

\* A stage is entered with nothing on its way: what is left to prove is the
\* driver's state and where the card is before the first byte.
LEMMA Entered ==
    ASSUME SdInv, UNCHANGED wireVars, tx' = <<>>, rx' \in {rx, <<>>}, cs' \in BOOLEAN,
           keep' => rx' = <<>>, keep' \in BOOLEAN, out' = Sending', got' = <<>>,
           DriverInv', may' \in [0 .. NBlocks - 1 -> SUBSET Block],
           \A b \in 0 .. NBlocks - 1 : card.blocks[b] \in may'[b],
           Ready' => ~card.app_cmd_pending,
           cs_high => pc' \in {"boot", "released", "sent"},
           pc' = "sent" => InFrame(card, 0)',
           pc' = "r1" => InR1(card, rx, 0)',
           pc' = "token" => InToken(card, rx, 0)',
           pc' = "data" => InData(card, rx, 0)',
           pc' = "block" => InBlock(card, 0)',
           pc' = "response" => InResponse(card, 0)'
    PROVE  SdInv'
<1>0. /\ card' = card /\ cs_high' = cs_high /\ misframed' = misframed
      /\ \A S : <<>> \in Seq(S)
      /\ Len(<<>>) = 0 /\ Depth \in Nat \ {0}
  BY EmptySeq, SdAssumption DEF wireVars
<1>1. /\ TypeOK /\ ~misframed /\ StageInv(card, cs_high, rx, Gone)
  BY DEF SdInv
<1>2. Sending' \in Seq(Byte) /\ Len(Sending') \in Nat
  <2>1. (DriverInv => Sending \in Seq(Byte) /\ Len(Sending) \in Nat)'
    BY SendingBytes, PTL
  <2> QED BY <2>1
<1>3. Gone' = 0
  BY <1>0, <1>2 DEF Gone
<1>4. QueueInv'
  <2>1. ASSUME NEW i \in 1 .. Len(out') PROVE out'[i] = Sending'[(Gone' + Len(tx')) + i]
    <3>1. (0 + 0) + i = i
      OBVIOUS
    <3> HIDE DEF Gone
    <3> QED BY <1>0, <1>3, <3>1
  <2>2. keep' => Len(tx') + Len(rx') <= Depth
    BY <1>0
  <2>3. Gone' >= 0 /\ 1 .. Len(tx') = {}
    BY <1>0, <1>3
  <2> HIDE DEF Gone
  <2> QED BY <2>1, <2>2, <2>3 DEF QueueInv
<1>5. TypeOK'
  <2>1. /\ card' \in [phase : Phase, index : 0 .. 63, taken : Nat, arg : Byte,
                      reply : Seq(Byte), app_cmd_pending : BOOLEAN,
                      acmd41_busy_left : 0 .. Busy, initialised : BOOLEAN,
                      write_block : Byte, write_pending : BOOLEAN,
                      write_buf : Seq(Byte), blocks : [0 .. NBlocks - 1 -> Block]]
        /\ Len(card'.write_buf) <= BlockSize
    BY <1>0, <1>1 DEF TypeOK
  <2>2. cs_high' \in BOOLEAN /\ cs' \in BOOLEAN /\ misframed' \in BOOLEAN
    BY <1>0, <1>1 DEF TypeOK
  <2>3. rx' \in Seq(Byte) /\ Len(rx') <= Depth
    <3>1. CASE rx' = rx
      BY <1>1, <3>1 DEF TypeOK
    <3>2. CASE rx' = <<>>
      BY <1>0, <3>2
    <3> QED BY <3>1, <3>2
  <2>4. tx' \in Seq([byte : Byte, cs : BOOLEAN]) /\ Len(tx') <= Depth
    BY <1>0
  <2>5. /\ out' \in Seq(Byte) /\ got' \in Seq(Byte) /\ keep' \in BOOLEAN
        /\ may' \in [0 .. NBlocks - 1 -> SUBSET Block]
    BY <1>0, <1>2
  <2> QED BY <2>1, <2>2, <2>3, <2>4, <2>5 DEF TypeOK
<1>6. StageInv(card, cs_high, rx, Gone)'
  <2>1. /\ card' \in Cards
        /\ cs_high' => card'.phase = "Idle"
        /\ cs_high' => pc' \in {"boot", "released"} \/ (pc' = "sent" /\ Gone' = 0)
        /\ pc' = "released" /\ Gone' = 1 => cs_high'
        /\ Ready' => ~card'.app_cmd_pending
        /\ \A b \in 0 .. NBlocks - 1 : card'.blocks[b] \in may'[b]
    BY <1>0, <1>1, <1>3 DEF StageInv
  <2>2. keep' => Len(got') + Len(rx') = Gone'
    BY <1>0, <1>3
  <2>3. /\ pc' = "sent" => InFrame(card, Gone)'
        /\ pc' = "r1" => InR1(card, rx, Gone)'
        /\ pc' = "token" => InToken(card, rx, Gone)'
        /\ pc' = "data" => InData(card, rx, Gone)'
        /\ pc' = "block" => InBlock(card, Gone)'
        /\ pc' = "response" => InResponse(card, Gone)'
    <3> HIDE DEF Gone
    <3>1. pc' = "sent" => InFrame(card, Gone)'
      BY <1>3 DEF InFrame
    <3>2. pc' = "r1" => InR1(card, rx, Gone)'
      BY <1>3 DEF InR1
    <3>3. pc' = "token" => InToken(card, rx, Gone)'
      BY <1>3 DEF InToken
    <3>4. pc' = "data" => InData(card, rx, Gone)'
      BY <1>3 DEF InData
    <3>5. pc' = "block" => InBlock(card, Gone)'
      BY <1>3 DEF InBlock
    <3>6. pc' = "response" => InResponse(card, Gone)'
      BY <1>3 DEF InResponse
    <3> QED BY <3>1, <3>2, <3>3, <3>4, <3>5, <3>6
  <2> HIDE DEF Gone
  <2> QED BY <2>1, <2>2, <2>3 DEF StageInv, Cards
<1> QED BY <1>0, <1>1, <1>4, <1>5, <1>6 DEF SdInv

\* What Entered and the steps below use of the invariant.
LEMMA Facts ==
    ASSUME SdInv
    PROVE  /\ TypeOK /\ ~misframed /\ DriverInv /\ QueueInv
           /\ StageInv(card, cs_high, rx, Gone) /\ card \in Cards
           /\ rx \in Seq(Byte) /\ got \in Seq(Byte) /\ out \in Seq(Byte)
           /\ may \in [0 .. NBlocks - 1 -> SUBSET Block]
           /\ \A b \in 0 .. NBlocks - 1 : card.blocks[b] \in may[b]
           /\ Ready => ~card.app_cmd_pending
           /\ cs_high => card.phase = "Idle"
           /\ pc = "released" /\ Gone = 1 => cs_high
           /\ cs_high => pc \in {"boot", "released"} \/ (pc = "sent" /\ Gone = 0)
           /\ keep => Len(got) + Len(rx) = Gone
           /\ pc = "sent" => InFrame(card, Gone)
           /\ pc = "r1" => InR1(card, rx, Gone)
           /\ pc = "token" => InToken(card, rx, Gone)
           /\ pc = "data" => InData(card, rx, Gone)
           /\ pc = "block" => InBlock(card, Gone)
           /\ pc = "response" => InResponse(card, Gone)
BY DEF SdInv, TypeOK, StageInv

\* When everything was exchanged, the card has taken the whole of a stage.
LEMMA AllGone ==
    ASSUME SdInv, Exchanged
    PROVE  /\ tx = <<>> /\ rx = <<>> /\ out = <<>> /\ Gone = Len(Sending)
           /\ pc # "boot" => ~(cs_high /\ pc # "released")
           /\ pc \in {"released", "r1", "token", "response"} => Gone = 1
           /\ pc = "sent" => Gone = ArgBytes + 2
           /\ pc = "data" => Gone = BlockSize + 2
           /\ pc = "block" => Gone = BlockSize + 3
           /\ keep => Len(got) = Gone
           /\ \A i \in 1 .. Len(got) : ReadAt(rx, i) = got[i]
<1>1. tx = <<>> /\ rx = <<>> /\ out = <<>>
  BY DEF Exchanged
<1>2. Len(tx) = 0 /\ Len(out) = 0 /\ Len(rx) = 0
  BY <1>1, EmptySeq
<1>3. Gone = Len(Sending)
  BY <1>2, Lengths
<1>4. DriverInv
  BY DEF SdInv
<1>5. /\ pc \in {"released", "r1", "token", "response"} => Gone = 1
      /\ pc = "sent" => Gone = ArgBytes + 2
      /\ pc = "data" => Gone = BlockSize + 2
      /\ pc = "block" => Gone = BlockSize + 3
  <2> HIDE DEF Gone
  <2> QED BY <1>3, <1>4, SendingShape
<1>6. keep => Len(got) = Gone
  <2>1. keep => Len(got) + Len(rx) = Gone
    BY Facts
  <2> HIDE DEF Gone
  <2> QED BY <1>2, <2>1, Lengths
<1>7. \A i \in 1 .. Len(got) : ReadAt(rx, i) = got[i]
  BY Lengths DEF ReadAt
<1>8. pc # "boot" => ~(cs_high /\ pc # "released")
  <2>1. ArgBytes + 2 # 0
    BY SdAssumption
  <2>2. cs_high => pc \in {"boot", "released"} \/ (pc = "sent" /\ Gone = 0)
    BY Facts
  <2> HIDE DEF Gone
  <2> QED BY <1>5, <2>1, <2>2
<1> QED BY <1>1, <1>3, <1>5, <1>6, <1>7, <1>8

\* The end of an exchange: whatever the card was doing, the chip select ends it.
LEMMA Released ==
    ASSUME SdInv, Release, UNCHANGED <<wireVars, tx, rx, cmd, block, data>>, tx = <<>>,
           step' \in {"CMD0", "CMD55", "ACMD41", "ready"},
           step' = "ready" => ~card.app_cmd_pending,
           may' \in [0 .. NBlocks - 1 -> SUBSET Block],
           \A b \in 0 .. NBlocks - 1 : card.blocks[b] \in may'[b]
    PROVE  SdInv'
<1>1. /\ cs' = TRUE /\ pc' = "released" /\ out' = <<IDLE>> /\ keep' = FALSE /\ got' = <<>>
      /\ tx' = <<>> /\ rx' = rx /\ UNCHANGED wireVars
      /\ cmd' = cmd /\ block' = block /\ data' = data
  BY DEF Release, Stage
<1>2. DriverInv'
  <2>1. cmd \in 0 .. 63 /\ block \in Byte /\ data \in Block
    BY DEF SdInv, DriverInv
  <2> QED BY <1>1, <2>1 DEF DriverInv
<1>3. out' = Sending'
  BY <1>1 DEF Sending
<1>4. Ready' => ~card.app_cmd_pending
  BY DEF Ready
<1> QED BY <1>1, <1>2, <1>3, <1>4, Entered

LEMMA BootStep == SdInv /\ Boot => SdInv'
<1> SUFFICES ASSUME SdInv, Boot PROVE SdInv'
  OBVIOUS
<1>1. /\ pc = "boot" /\ Release /\ step' = "CMD0"
      /\ UNCHANGED <<wireVars, tx, rx, cmd, block, data, may, bounds>>
  BY DEF Boot, ReleaseWith
<1>2. tx = <<>>
  <2>1. Len(Sending) = 0
    BY <1>1, SendingShape DEF SdInv
  <2>2. Len(tx) = 0
    <3>1. \A a, b, c \in Nat : a + b + c = 0 => b = 0
      OBVIOUS
    <3> QED BY <2>1, <3>1, Lengths
  <2>3. tx \in Seq([byte : Byte, cs : BOOLEAN])
    BY DEF SdInv, TypeOK
  <2> QED BY <2>2, <2>3, EmptySeq
<1>3. /\ may' \in [0 .. NBlocks - 1 -> SUBSET Block]
      /\ \A b \in 0 .. NBlocks - 1 : card.blocks[b] \in may'[b]
  BY <1>1, Facts
<1> QED BY <1>1, <1>2, <1>3, Released

\* A command is sent to a card that idles.
LEMMA SendStep ==
    ASSUME SdInv, NEW i \in 0 .. 63, NEW b \in Byte, Send(i, b),
           i \in IF Ready THEN {17, 24} ELSE {0, 41, 55}, data' \in Block,
           may' \in [0 .. NBlocks - 1 -> SUBSET Block],
           \A a \in 0 .. NBlocks - 1 : card.blocks[a] \in may'[a],
           i = 24 /\ b < NBlocks => data' \in may'[b]
    PROVE  SdInv'
<1>1. /\ pc = "released" /\ Exchanged
      /\ cs' = FALSE /\ cmd' = i /\ block' = b /\ pc' = "sent" /\ out' = Frame(i, b)
      /\ keep' = FALSE /\ got' = <<>> /\ step' = step
      /\ UNCHANGED wireVars /\ tx' = tx /\ rx' = rx
  BY DEF Send, Stage
<1>2. tx = <<>> /\ rx = <<>> /\ Gone = 1
  BY <1>1, AllGone
<1>3. card.phase = "Idle" /\ (Ready => ~card.app_cmd_pending)
  BY <1>1, <1>2, Facts
<1>4. DriverInv'
  <2>1. step \in {"CMD0", "CMD55", "ACMD41", "ready"}
    BY DEF SdInv, DriverInv
  <2> QED BY <1>1, <2>1 DEF DriverInv, Ready, Reading, Writing
<1>5. out' = Sending'
  BY <1>1 DEF Sending
<1>6. InFrame(card, 0)'
  <2>1. 0 \notin 1 .. ArgBytes + 1 /\ 0 # ArgBytes + 1 /\ 0 # ArgBytes + 2
    BY SdAssumption
  <2>2. card' = card
    BY <1>1 DEF wireVars
  <2> QED BY <1>3, <2>1, <2>2 DEF InFrame
<1>7. Ready' => ~card.app_cmd_pending
  BY <1>1, <1>3 DEF Ready
<1> QED BY <1>1, <1>2, <1>4, <1>5, <1>6, <1>7, Entered

LEMMA BringUpStep == SdInv /\ BringUp => SdInv'
<1> SUFFICES ASSUME SdInv, BringUp PROVE SdInv'
  OBVIOUS
<1>1. PICK i \in {0, 41, 55} : Send(i, 0) /\ ~Ready /\ UNCHANGED <<data, may>>
  BY DEF BringUp, Ready
<1>2. i \in 0 .. 63 /\ 0 \in Byte /\ i # 24
  BY DEF Byte
<1>3. /\ data' \in Block /\ may' \in [0 .. NBlocks - 1 -> SUBSET Block]
      /\ \A b \in 0 .. NBlocks - 1 : card.blocks[b] \in may'[b]
  BY <1>1, Facts DEF DriverInv
<1> QED BY <1>1, <1>2, <1>3, SendStep

LEMMA OperateStep == SdInv /\ Operate => SdInv'
<1> SUFFICES ASSUME SdInv, Operate PROVE SdInv'
  OBVIOUS
<1>1. /\ may \in [0 .. NBlocks - 1 -> SUBSET Block] /\ data \in Block /\ NBlocks \in Nat
      /\ \A b \in 0 .. NBlocks - 1 : card.blocks[b] \in may[b]
      /\ Addresses \subseteq Byte /\ Contents \subseteq Block /\ Ready
  BY Facts, SdAssumption DEF DriverInv, Operate, Ready
<1>2. PICK b \in Addresses :
        \/ Send(17, b) /\ UNCHANGED <<data, may>>
        \/ \E d \in Contents :
             /\ Send(24, b) /\ data' = d
             /\ may' = [a \in DOMAIN may |-> IF a = b THEN may[a] \cup {d} ELSE may[a]]
  BY DEF Operate
<1>3. CASE Send(17, b) /\ UNCHANGED <<data, may>>
  <2>1. 17 \in 0 .. 63 /\ 17 # 24 /\ b \in Byte
    BY <1>1
  <2> QED BY <1>1, <1>3, <2>1, SendStep
<1>4. ASSUME NEW d \in Contents, Send(24, b), data' = d,
             may' = [a \in DOMAIN may |-> IF a = b THEN may[a] \cup {d} ELSE may[a]]
      PROVE  SdInv'
  <2>1. 24 \in 0 .. 63 /\ b \in Byte /\ d \in Block
    BY <1>1
  <2>2. may' \in [0 .. NBlocks - 1 -> SUBSET Block]
    BY <1>1, <1>4, <2>1
  <2>3. \A a \in 0 .. NBlocks - 1 : may[a] \subseteq may'[a]
    BY <1>1, <1>4
  <2>4. \A a \in 0 .. NBlocks - 1 : card.blocks[a] \in may'[a]
    BY <1>1, <2>3
  <2>5. b < NBlocks => data' \in may'[b]
    <3>1. b < NBlocks => b \in 0 .. NBlocks - 1
      BY <1>1, <2>1 DEF Byte
    <3> QED BY <1>1, <1>4, <3>1
  <2>6. 24 \in IF Ready THEN {17, 24} ELSE {0, 41, 55}
    BY <1>1
  <2>7. data' \in Block
    BY <1>4, <2>1
  <2> QED BY <1>4, <2>1, <2>2, <2>4, <2>5, <2>6, <2>7, SendStep
<1> QED BY <1>2, <1>3, <1>4

\* What the card has told is about the card and the command.
LEMMA ToldKept ==
    ASSUME card' = card, cmd' = cmd, block' = block, NEW n, Told(card, n)
    PROVE  Told(card, n)'
BY DEF Told, Answer, AnswerLen

LEMMA SentStep == SdInv /\ Sent => SdInv'
<1> SUFFICES ASSUME SdInv, Sent PROVE SdInv'
  OBVIOUS
<1>1. /\ pc = "sent" /\ Exchanged
      /\ pc' = "r1" /\ out' = <<IDLE>> /\ keep' = TRUE /\ got' = <<>>
      /\ UNCHANGED wireVars /\ tx' = tx /\ rx' = rx /\ cs' = cs /\ step' = step
      /\ cmd' = cmd /\ block' = block /\ data' = data /\ may' = may
  BY DEF Sent, Poll, Stage
<1>2. tx = <<>> /\ rx = <<>> /\ ~cs_high /\ Gone = ArgBytes + 2
  BY <1>1, AllGone
<1>3. DriverInv
  BY DEF SdInv
<1>4. /\ may \in [0 .. NBlocks - 1 -> SUBSET Block]
      /\ \A b \in 0 .. NBlocks - 1 : card.blocks[b] \in may[b]
      /\ Ready => ~card.app_cmd_pending
      /\ InFrame(card, Gone)
  BY <1>1, Facts
<1>5. DriverInv'
  BY <1>1, <1>3 DEF DriverInv, Ready, Reading, Writing
<1>6. out' = Sending'
  BY <1>1 DEF Sending
<1>7. /\ cmd # 55 => ~card.app_cmd_pending
      /\ Writing => card.write_pending /\ card.write_block = block
      /\ IF Ready THEN Told(card, 0) ELSE card.phase = "Reply"
  <2> HIDE DEF Gone
  <2> QED BY <1>2, <1>4 DEF InFrame
<1>9. InR1(card, rx, 0)'
  <2>1. card' = card
    BY <1>1 DEF wireVars
  <2>3. Ready => Told(card, 0)'
    BY <1>1, <1>7, <2>1, ToldKept
  <2> QED BY <1>1, <1>7, <2>1, <2>3 DEF InR1, Ready, Writing
<1>10. cs' \in BOOLEAN /\ (Ready' => ~card.app_cmd_pending)
  BY <1>1, <1>3, <1>4 DEF Ready, SdInv, TypeOK
<1> QED BY <1>1, <1>2, <1>4, <1>5, <1>6, <1>9, <1>10, Entered

\* What a completed poll of the response got, of a driver that is ready: it is
\* the idle byte before the answer, or the answer.
LEMMA PolledR1 ==
    ASSUME SdInv, pc = "r1", Polled
    PROVE  /\ cmd # 55 => ~card.app_cmd_pending
           /\ Writing => card.write_pending /\ card.write_block = block
           /\ ~Ready => card.phase \in {"Reply", "AwaitWriteToken", "Idle"}
           /\ Ready => \/ Told(card, 1) /\ got[1] = IDLE
                       \/ Told(card, 2) /\ got[1] = R1_READY
<1>1. DriverInv
  BY DEF SdInv
<1>2. keep /\ Exchanged
  BY <1>1 DEF DriverInv, Polled
<1>3. Gone = 1 /\ Len(got) = Gone /\ \A i \in 1 .. Len(got) : ReadAt(rx, i) = got[i]
  BY <1>2, AllGone
<1>4. ReadAt(rx, 1) = got[1]
  BY <1>3
<1>5. InR1(card, rx, 1)
  BY <1>3, Facts
<1>6. Ready => \E n \in 0 .. 2 : Told(card, n) /\ n > 0 /\ got[1] = Answer(card, n)
  BY <1>4, <1>5 DEF InR1
<1>7. Answer(card, 1) = IDLE /\ Answer(card, 2) = R1_READY
  BY SdAssumption DEF Answer
<1>8. \A n \in 0 .. 2 : n > 0 => n = 1 \/ n = 2
  OBVIOUS
<1>9. Ready => \/ Told(card, 1) /\ got[1] = IDLE
               \/ Told(card, 2) /\ got[1] = R1_READY
  BY <1>6, <1>7, <1>8
<1> QED BY <1>5, <1>9 DEF InR1

\* What a completed poll of the token got.
LEMMA PolledToken ==
    ASSUME SdInv, pc = "token", Polled
    PROVE  /\ Reading /\ ~card.app_cmd_pending
           /\ IF block < NBlocks THEN Told(card, 3) /\ got[1] = TOKEN_START
                                 ELSE Told(card, 2) /\ got[1] = IDLE
<1>1. DriverInv
  BY DEF SdInv
<1>2. keep /\ Exchanged /\ Reading
  BY <1>1 DEF DriverInv, Polled
<1>3. Gone = 1 /\ Len(got) = Gone /\ \A i \in 1 .. Len(got) : ReadAt(rx, i) = got[i]
  BY <1>2, AllGone
<1>4. ReadAt(rx, 1) = got[1]
  BY <1>3
<1>5. InToken(card, rx, 1) /\ ~card.app_cmd_pending
  BY <1>2, <1>3, Facts DEF Reading
<1>6. 2 + 1 = 3
  OBVIOUS
<1> QED BY <1>2, <1>4, <1>5, <1>6 DEF InToken

\* A stage in the middle of an exchange moves neither the pin nor the command.
LEMMA MovesOn ==
    ASSUME SdInv, Exchanged, pc # "boot", pc # "released",
           UNCHANGED <<wireVars, tx, rx, cs, step, cmd, block, data, may, bounds>>,
           pc' \notin {"boot", "released", "sent"},
           keep' \in BOOLEAN, out' = Sending', got' = <<>>, DriverInv',
           pc' = "r1" => InR1(card, rx, 0)',
           pc' = "token" => InToken(card, rx, 0)',
           pc' = "data" => InData(card, rx, 0)',
           pc' = "block" => InBlock(card, 0)',
           pc' = "response" => InResponse(card, 0)'
    PROVE  SdInv'
<1>1. tx = <<>> /\ rx = <<>> /\ ~cs_high
  BY AllGone
<1>2. /\ may \in [0 .. NBlocks - 1 -> SUBSET Block]
      /\ \A b \in 0 .. NBlocks - 1 : card.blocks[b] \in may[b]
      /\ Ready => ~card.app_cmd_pending
      /\ cs \in BOOLEAN
  BY Facts DEF TypeOK
<1>3. Ready' => ~card.app_cmd_pending
  BY <1>2 DEF Ready
<1> QED BY <1>1, <1>2, <1>3, Entered

LEMMA PollAgainStep == SdInv /\ PollAgain => SdInv'
<1> SUFFICES ASSUME SdInv, PollAgain PROVE SdInv'
  OBVIOUS
<1>1. /\ pc \in {"r1", "token"} /\ Polled /\ Exchanged
      /\ pc' = pc /\ out' = <<IDLE>> /\ keep' = TRUE /\ got' = <<>>
      /\ UNCHANGED <<wireVars, tx, rx, cs, step, cmd, block, data, may, bounds>>
  BY DEF PollAgain, Polled, Poll, Stage
<1>2. DriverInv
  BY DEF SdInv
<1>3. DriverInv'
  BY <1>1, <1>2 DEF DriverInv, Ready, Reading, Writing
<1>4. out' = Sending'
  BY <1>1 DEF Sending
<1>5. card' = card
  BY <1>1 DEF wireVars
<1>6. CASE pc = "r1"
  <2>1. got[1] >= 128
    BY <1>6 DEF PollAgain
  <2>2. Ready => Told(card, 1)
    <3>1. ~(R1_READY >= 128)
      BY DEF R1_READY
    <3> QED BY <1>1, <1>6, <2>1, <3>1, PolledR1
  <2>3. Ready => Told(card, 1)'
    BY <1>1, <1>5, <2>2, ToldKept
  <2>4. Ready' => \E n \in 0 .. 2 : Told(card, n)' /\ n < 2
    BY <1>1, <2>3 DEF Ready
  <2>5. InR1(card, rx, 0)'
    BY <1>1, <1>5, <1>6, <2>4, PolledR1 DEF InR1, Ready, Writing
  <2> QED BY <1>1, <1>3, <1>4, <1>6, <2>5, MovesOn
<1>7. CASE pc = "token"
  <2>1. got[1] # TOKEN_START
    BY <1>7 DEF PollAgain
  <2>2. ~(block < NBlocks) /\ Told(card, 2)
    BY <1>1, <1>7, <2>1, PolledToken
  <2>3. Told(card, 2)'
    BY <1>1, <1>5, <2>2, ToldKept
  <2>4. InToken(card, rx, 0)'
    BY <1>1, <2>2, <2>3 DEF InToken
  <2> QED BY <1>1, <1>3, <1>4, <1>7, <2>4, MovesOn
<1> QED BY <1>1, <1>6, <1>7

LEMMA BringUpAnsweredStep == SdInv /\ BringUpAnswered => SdInv'
<1> SUFFICES ASSUME SdInv, BringUpAnswered PROVE SdInv'
  OBVIOUS
<1>1. PICK s \in {"CMD0", "CMD55", "ACMD41", "ready"} :
        /\ Answered /\ ReleaseWith(s) /\ (s = "ready" => cmd = 41)
  BY DEF BringUpAnswered
<1>2. /\ pc = "r1" /\ Polled /\ Exchanged /\ Release /\ step' = s
      /\ UNCHANGED <<wireVars, tx, rx, cmd, block, data, may, bounds>>
  BY <1>1 DEF Answered, Polled, ReleaseWith
<1>3. s = "ready" => ~card.app_cmd_pending
  BY <1>1, <1>2, PolledR1
<1>4. /\ may' \in [0 .. NBlocks - 1 -> SUBSET Block]
      /\ \A b \in 0 .. NBlocks - 1 : card.blocks[b] \in may'[b]
  BY <1>2, Facts
<1>5. tx = <<>>
  BY <1>2, AllGone
<1> QED BY <1>2, <1>3, <1>4, <1>5, Released

LEMMA TimeOutStep == SdInv /\ TimeOut => SdInv'
<1> SUFFICES ASSUME SdInv, TimeOut PROVE SdInv'
  OBVIOUS
<1>1. /\ Exchanged /\ Release /\ step' = IF Ready THEN step ELSE "CMD0"
      /\ UNCHANGED <<wireVars, tx, rx, cmd, block, data, may>>
  BY DEF TimeOut, Ready
<1>2. step' \in {"CMD0", "CMD55", "ACMD41", "ready"} /\ (step' = "ready" => Ready)
  BY <1>1 DEF Ready
<1>3. /\ may' \in [0 .. NBlocks - 1 -> SUBSET Block]
      /\ \A b \in 0 .. NBlocks - 1 : card.blocks[b] \in may'[b]
      /\ step' = "ready" => ~card.app_cmd_pending
  BY <1>1, <1>2, Facts
<1>4. tx = <<>>
  BY <1>1, AllGone
<1> QED BY <1>1, <1>2, <1>3, <1>4, Released

LEMMA BlockAnsweredStep == SdInv /\ BlockAnswered => SdInv'
<1> SUFFICES ASSUME SdInv, BlockAnswered PROVE SdInv'
  OBVIOUS
<1>1. /\ pc = "r1" /\ Polled /\ Exchanged /\ got[1] = R1_READY /\ cmd \in {17, 24}
      /\ UNCHANGED <<wireVars, tx, rx, cs, step, cmd, block, data, may, bounds>>
  BY DEF BlockAnswered, Answered, Polled
<1>2. DriverInv
  BY DEF SdInv
<1>3. Ready
  BY <1>1, <1>2 DEF DriverInv
<1>4. Told(card, 2)
  <2>1. R1_READY # IDLE
    BY DEF R1_READY, IDLE
  <2> QED BY <1>1, <1>3, <2>1, PolledR1
<1>5. card' = card
  BY <1>1 DEF wireVars
<1>6. Told(card, 2)'
  BY <1>1, <1>4, <1>5, ToldKept
<1>7. CASE cmd = 17
  <2>1. pc' = "token" /\ out' = <<IDLE>> /\ keep' = TRUE /\ got' = <<>>
    BY <1>7 DEF BlockAnswered, Poll, Stage
  <2>2. DriverInv'
    BY <1>1, <1>2, <1>3, <1>7, <2>1 DEF DriverInv, Ready, Reading, Writing
  <2>3. out' = Sending'
    BY <2>1 DEF Sending
  <2>4. InToken(card, rx, 0)'
    <3>1. 2 + 0 = 2 /\ 0 # 1
      OBVIOUS
    <3> QED BY <1>6, <3>1 DEF InToken
  <2> QED BY <1>1, <2>1, <2>2, <2>3, <2>4, MovesOn
<1>8. CASE cmd = 24
  <2>1. /\ pc' = "block" /\ out' = <<TOKEN_START>> \o data \o <<IDLE, IDLE>>
        /\ keep' = FALSE /\ got' = <<>>
    BY <1>8 DEF BlockAnswered, Stage
  <2>2. DriverInv'
    BY <1>1, <1>2, <1>3, <1>8, <2>1 DEF DriverInv, Ready, Reading, Writing
  <2>3. out' = Sending'
    BY <1>1, <2>1 DEF Sending
  <2>4. card.write_pending /\ card.write_block = block
    BY <1>1, <1>3, <1>8, PolledR1 DEF Writing
  <2>5. AnswerLen = 2
    BY <1>8, AnswerLens
  <2>6. card.phase = "AwaitWriteToken"
    BY <1>4, <2>4, <2>5 DEF Told
  <2>7. InBlock(card, 0)'
    <3>1. 0 \notin 1 .. BlockSize + 2 /\ 0 # BlockSize + 3
      BY SdAssumption
    <3> QED BY <1>1, <1>5, <2>4, <2>6, <3>1 DEF InBlock
  <2> QED BY <1>1, <2>1, <2>2, <2>3, <2>7, MovesOn
<1> QED BY <1>1, <1>7, <1>8

LEMMA TokenSeenStep == SdInv /\ TokenSeen => SdInv'
<1> SUFFICES ASSUME SdInv, TokenSeen PROVE SdInv'
  OBVIOUS
<1>1. /\ pc = "token" /\ Polled /\ Exchanged /\ got[1] = TOKEN_START
      /\ pc' = "data" /\ out' = [k \in 1 .. BlockSize + 2 |-> IDLE]
      /\ keep' = TRUE /\ got' = <<>>
      /\ UNCHANGED <<wireVars, tx, rx, cs, step, cmd, block, data, may, bounds>>
  BY DEF TokenSeen, Polled, Stage
<1>2. DriverInv
  BY DEF SdInv
<1>3. block < NBlocks /\ Told(card, 3) /\ Reading
  <2>1. TOKEN_START # IDLE
    BY DEF TOKEN_START, IDLE
  <2> QED BY <1>1, <2>1, PolledToken
<1>4. card' = card
  BY <1>1 DEF wireVars
<1>5. Told(card, 3)'
  BY <1>1, <1>3, <1>4, ToldKept
<1>6. InData(card, rx, 0)'
  <2>1. 3 + 0 = 3 /\ 1 .. 0 = {}
    OBVIOUS
  <2> QED BY <1>5, <2>1 DEF InData
<1>7. DriverInv'
  BY <1>1, <1>2, <1>3 DEF DriverInv, Ready, Reading, Writing
<1>8. out' = Sending'
  BY <1>1 DEF Sending
<1> QED BY <1>1, <1>6, <1>7, <1>8, MovesOn

LEMMA BlockSentStep == SdInv /\ BlockSent => SdInv'
<1> SUFFICES ASSUME SdInv, BlockSent PROVE SdInv'
  OBVIOUS
<1>1. /\ pc = "block" /\ Exchanged
      /\ pc' = "response" /\ out' = <<IDLE>> /\ keep' = TRUE /\ got' = <<>>
      /\ UNCHANGED <<wireVars, tx, rx, cs, step, cmd, block, data, may, bounds>>
  BY DEF BlockSent, Poll, Stage
<1>2. DriverInv
  BY DEF SdInv
<1>3. DriverInv'
  BY <1>1, <1>2 DEF DriverInv, Ready, Reading, Writing
<1>4. out' = Sending'
  BY <1>1 DEF Sending
<1>5. card' = card
  BY <1>1 DEF wireVars
<1>6. card.phase = "DataResponse" /\ (block < NBlocks => card.blocks[block] = data)
  <2>1. InBlock(card, Gone) /\ Gone = BlockSize + 3
    BY <1>1, Facts, AllGone
  <2> HIDE DEF Gone
  <2> QED BY <2>1 DEF InBlock
<1>7. InResponse(card, 0)'
  BY <1>1, <1>5, <1>6 DEF InResponse
<1> QED BY <1>1, <1>3, <1>4, <1>7, MovesOn

\* What a read returns is the block as the card holds it.
LEMMA ReadBack ==
    ASSUME SdInv, ReadDone
    PROVE  BlockGot = card.blocks[block] /\ block \in 0 .. NBlocks - 1
<1>1. DriverInv /\ card \in Cards /\ got \in Seq(Byte) /\ pc = "data" /\ Exchanged
  BY Facts DEF ReadDone
<1>2. block < NBlocks /\ keep /\ block \in Byte /\ NBlocks \in Nat /\ BlockSize \in Nat \ {0}
  BY <1>1, SdAssumption DEF DriverInv
<1>3. block \in 0 .. NBlocks - 1
  BY <1>2 DEF Byte
<1>4. card.blocks[block] \in Block
  BY <1>1, <1>3 DEF Cards
<1>5. card.blocks[block] \in Seq(Byte) /\ Len(card.blocks[block]) = BlockSize
  BY <1>4, BlockSeq
<1>6. /\ Gone = BlockSize + 2 /\ Len(got) = Gone
      /\ \A i \in 1 .. Len(got) : ReadAt(rx, i) = got[i]
      /\ InData(card, rx, Gone)
  BY <1>1, <1>2, AllGone, Facts
<1>7. ASSUME NEW i \in 1 .. BlockSize PROVE got[i] = card.blocks[block][i]
  <2>1. /\ i \in 1 .. BlockSize + 2 /\ 3 + i \in 4 .. BlockSize + 3 /\ (3 + i) - 3 = i
        /\ 3 + i # 2 /\ 3 + i # 3
    BY <1>2
  <2>2. got[i] = Answer(card, 3 + i)
    <3> HIDE DEF Gone
    <3> QED BY <1>6, <2>1 DEF InData
  <2> QED BY <2>1, <2>2 DEF Answer
<1>8. /\ BlockGot \in Seq(Byte) /\ Len(BlockGot) = BlockSize
      /\ \A i \in 1 .. BlockSize : BlockGot[i] = got[i]
  <2>1. \A i \in 1 .. BlockSize : got[i] \in Byte
    <3> TAKE i \in 1 .. BlockSize
    <3>1. i \in 1 .. Len(got)
      <4> HIDE DEF Gone
      <4> QED BY <1>2, <1>6
    <3> QED BY <1>1, <3>1, ElementOfSeq
  <2>2. /\ SubSeq(got, 1, BlockSize) \in Seq(Byte)
        /\ Len(SubSeq(got, 1, BlockSize)) = IF 1 <= BlockSize THEN BlockSize - 1 + 1 ELSE 0
        /\ \A i \in 1 .. BlockSize - 1 + 1 : SubSeq(got, 1, BlockSize)[i] = got[1 + i - 1]
    <3>1. 1 \in Int /\ BlockSize \in Int
      BY <1>2
    <3> QED BY <2>1, <3>1, SubSeqProperties
  <2>3. /\ (IF 1 <= BlockSize THEN BlockSize - 1 + 1 ELSE 0) = BlockSize
        /\ BlockSize - 1 + 1 = BlockSize /\ \A i \in 1 .. BlockSize : 1 + i - 1 = i
    BY <1>2
  <2> QED BY <2>2, <2>3 DEF BlockGot
<1>9. BlockGot = card.blocks[block]
  BY <1>5, <1>7, <1>8, SeqEqual
<1> QED BY <1>3, <1>9

\* A block whose content is known may hold that and nothing else.
LEMMA Resolved ==
    ASSUME SdInv, NEW d, Resolve(block, d),
           block \in 0 .. NBlocks - 1 => card.blocks[block] = d
    PROVE  /\ may' \in [0 .. NBlocks - 1 -> SUBSET Block]
           /\ \A b \in 0 .. NBlocks - 1 : card.blocks[b] \in may'[b]
<1>1. /\ may \in [0 .. NBlocks - 1 -> SUBSET Block]
      /\ \A b \in 0 .. NBlocks - 1 : card.blocks[b] \in may[b]
      /\ card.blocks \in [0 .. NBlocks - 1 -> Block]
  BY Facts DEF Cards
<1>2. may' = [b \in 0 .. NBlocks - 1 |-> IF b = block THEN {d} ELSE may[b]]
  BY <1>1 DEF Resolve
<1>3. block \in 0 .. NBlocks - 1 => d \in Block
  BY <1>1
<1>4. may' \in [0 .. NBlocks - 1 -> SUBSET Block]
  BY <1>1, <1>2, <1>3
<1>5. ASSUME NEW b \in 0 .. NBlocks - 1 PROVE card.blocks[b] \in may'[b]
  BY <1>1, <1>2
<1> QED BY <1>4, <1>5

LEMMA EndReadStep == SdInv /\ EndRead => SdInv'
<1> SUFFICES ASSUME SdInv, EndRead PROVE SdInv'
  OBVIOUS
<1>1. /\ ReadDone /\ Exchanged /\ pc = "data" /\ Release /\ Resolve(block, BlockGot)
      /\ UNCHANGED <<wireVars, tx, rx, step, cmd, block, data, bounds>>
  BY DEF EndRead, ReadDone
<1>2. card.blocks[block] = BlockGot
  BY <1>1, ReadBack
<1>3. /\ may' \in [0 .. NBlocks - 1 -> SUBSET Block]
      /\ \A b \in 0 .. NBlocks - 1 : card.blocks[b] \in may'[b]
  BY <1>1, <1>2, Resolved
<1>4. tx = <<>>
  BY <1>1, AllGone
<1>5. step' \in {"CMD0", "CMD55", "ACMD41", "ready"} /\ (step' = "ready" => ~card.app_cmd_pending)
  BY <1>1, Facts DEF DriverInv, Ready
<1> QED BY <1>1, <1>3, <1>4, <1>5, Released

LEMMA EndWriteStep == SdInv /\ EndWrite => SdInv'
<1> SUFFICES ASSUME SdInv, EndWrite PROVE SdInv'
  OBVIOUS
<1>1. /\ pc = "response" /\ Exchanged /\ Release
      /\ UNCHANGED <<wireVars, tx, rx, step, cmd, block, data, bounds>>
      /\ Resolve(block, data) \/ UNCHANGED may
  BY DEF EndWrite, Polled
<1>2. block \in 0 .. NBlocks - 1 => card.blocks[block] = data
  <2>1. InResponse(card, Gone) /\ NBlocks \in Nat
    BY <1>1, Facts, SdAssumption
  <2>2. block \in 0 .. NBlocks - 1 => block < NBlocks
    BY <2>1
  <2> QED BY <2>1, <2>2 DEF InResponse
<1>3. /\ may' \in [0 .. NBlocks - 1 -> SUBSET Block]
      /\ \A b \in 0 .. NBlocks - 1 : card.blocks[b] \in may'[b]
  <2>1. CASE Resolve(block, data)
    BY <1>2, <2>1, Resolved
  <2>2. CASE UNCHANGED may
    BY <2>2, Facts
  <2> QED BY <1>1, <2>1, <2>2
<1>4. tx = <<>>
  BY <1>1, AllGone
<1>5. step' \in {"CMD0", "CMD55", "ACMD41", "ready"} /\ (step' = "ready" => ~card.app_cmd_pending)
  BY <1>1, Facts DEF DriverInv, Ready
<1> QED BY <1>1, <1>3, <1>4, <1>5, Released

LEMMA ResetStep == SdInv /\ Reset => SdInv'
<1> SUFFICES ASSUME SdInv, Reset PROVE SdInv'
  OBVIOUS
<1>1. /\ tx' = <<>> /\ rx' = <<>> /\ cs' = FALSE /\ pc' = "boot" /\ out' = <<>>
      /\ got' = <<>> /\ keep' = FALSE /\ step' = "CMD0"
      /\ UNCHANGED wireVars /\ cmd' = cmd /\ block' = block /\ data' = data /\ may' = may
  BY DEF Reset
<1>2. /\ may' \in [0 .. NBlocks - 1 -> SUBSET Block]
      /\ \A b \in 0 .. NBlocks - 1 : card.blocks[b] \in may'[b]
      /\ cmd \in 0 .. 63 /\ block \in Byte /\ data \in Block
  BY <1>1, Facts DEF DriverInv
<1>3. DriverInv' /\ ~Ready'
  BY <1>1, <1>2 DEF DriverInv, Ready
<1>4. out' = Sending'
  BY <1>1 DEF Sending
<1> QED BY <1>1, <1>2, <1>3, <1>4, Entered

LEMMA PushStep == SdInv /\ Push => SdInv'
<1> SUFFICES ASSUME SdInv, Push PROVE SdInv'
  OBVIOUS
<1> DEFINE word == [byte |-> Head(out), cs |-> cs]
<1>1. /\ out # <<>> /\ Len(tx) < Depth /\ (keep => Len(tx) + Len(rx) < Depth)
      /\ tx' = Append(tx, word) /\ out' = Tail(out)
      /\ card' = card /\ cs_high' = cs_high /\ misframed' = misframed /\ rx' = rx /\ cs' = cs
      /\ UNCHANGED <<pc, step, cmd, block, data, got, keep, may>>
  BY DEF Push, wireVars
<1>2. /\ TypeOK /\ ~misframed /\ DriverInv /\ QueueInv /\ StageInv(card, cs_high, rx, Gone)
      /\ tx \in Seq([byte : Byte, cs : BOOLEAN]) /\ out \in Seq(Byte) /\ cs \in BOOLEAN
  BY Facts DEF TypeOK
<1>3. /\ Len(tx) \in Nat /\ Len(out) \in Nat /\ Len(rx) \in Nat /\ Len(Sending) \in Nat
      /\ Depth \in Nat \ {0} /\ Gone \in Nat
  BY Lengths
<1>4. /\ Head(out) = out[1] /\ Head(out) \in Byte /\ out' \in Seq(Byte)
      /\ Len(out') = Len(out) - 1 /\ \A i \in 1 .. Len(out) - 1 : out'[i] = out[i + 1]
      /\ Len(out) > 0
  <2>1. /\ Head(out) \in Byte /\ Tail(out) \in Seq(Byte) /\ Len(Tail(out)) = Len(out) - 1
        /\ \A i \in 1 .. Len(Tail(out)) : Tail(out)[i] = out[i + 1]
    BY <1>1, <1>2, HeadTailProperties
  <2>2. Head(out) = out[1]
    BY <1>1, <1>2
  <2>3. Len(out) > 0
    BY <1>1, <1>2, <1>3, EmptySeq
  <2> QED BY <1>1, <2>1, <2>2, <2>3
<1>5. /\ tx' \in Seq([byte : Byte, cs : BOOLEAN]) /\ Len(tx') = Len(tx) + 1
      /\ \A i \in 1 .. Len(tx) : tx'[i] = tx[i]
      /\ tx'[Len(tx) + 1] = word
  <2>1. word \in [byte : Byte, cs : BOOLEAN]
    BY <1>2, <1>4
  <2> HIDE DEF word
  <2> QED BY <1>1, <1>2, <2>1, AppendProperties
<1>6. Sending' = Sending
  BY <1>1 DEF Sending
<1>7. Gone' = Gone
  <2>1. Gone' = Len(Sending) - (Len(tx) + 1) - (Len(out) - 1)
    BY <1>4, <1>5, <1>6 DEF Gone
  <2>2. Len(Sending) - (Len(tx) + 1) - (Len(out) - 1) = Len(Sending) - Len(tx) - Len(out)
    BY <1>3
  <2> QED BY <2>1, <2>2 DEF Gone
<1> HIDE DEF Gone
<1>8. StageInv(card, cs_high, rx, Gone)'
  BY <1>1, <1>2, <1>7, StageKept
<1>9. DriverInv'
  BY <1>1, <1>2 DEF DriverInv, Ready, Reading, Writing
<1>10. QueueInv'
  <2>0. /\ Gone >= 0
        /\ \A i \in 1 .. Len(tx) : tx[i] = [byte |-> Sending[Gone + i], cs |-> cs]
        /\ \A i \in 1 .. Len(out) : out[i] = Sending[(Gone + Len(tx)) + i]
    BY <1>2 DEF QueueInv
  <2>1. ASSUME NEW i \in 1 .. Len(tx') PROVE tx'[i] = [byte |-> Sending'[Gone' + i], cs |-> cs']
    <3>1. CASE i \in 1 .. Len(tx)
      BY <1>1, <1>5, <1>6, <1>7, <2>0, <3>1
    <3>2. CASE i = Len(tx) + 1
      <4>1. 1 \in 1 .. Len(out) /\ (Gone + Len(tx)) + 1 = Gone + (Len(tx) + 1)
        BY <1>3, <1>4
      <4>2. Head(out) = Sending[Gone + (Len(tx) + 1)]
        BY <1>4, <2>0, <4>1
      <4> QED BY <1>1, <1>5, <1>6, <1>7, <3>2, <4>2
    <3>3. i \in 1 .. Len(tx) \/ i = Len(tx) + 1
      BY <1>3, <1>5
    <3> QED BY <3>1, <3>2, <3>3
  <2>2. ASSUME NEW i \in 1 .. Len(out') PROVE out'[i] = Sending'[(Gone' + Len(tx')) + i]
    <3>0. i \in 1 .. Len(out) - 1
      BY <1>4
    <3>1. i + 1 \in 1 .. Len(out) /\ (Gone + Len(tx)) + (i + 1) = (Gone + (Len(tx) + 1)) + i
      BY <1>3, <3>0
    <3>2. out[i + 1] = Sending[(Gone + Len(tx)) + (i + 1)]
      BY <2>0, <3>1
    <3> QED BY <1>4, <1>5, <1>6, <1>7, <3>0, <3>1, <3>2
  <2>3. keep' => Len(tx') + Len(rx') <= Depth
    BY <1>1, <1>3, <1>5
  <2> QED BY <1>7, <2>0, <2>1, <2>2, <2>3 DEF QueueInv
<1>11. TypeOK'
  <2>1. Len(tx') <= Depth
    BY <1>1, <1>3, <1>5
  <2> QED BY <1>1, <1>2, <1>4, <1>5, <2>1 DEF TypeOK
<1>12. ~misframed'
  BY <1>1, <1>2
<1> QED BY <1>8, <1>9, <1>10, <1>11, <1>12 DEF SdInv

\* A byte that the driver takes, to keep it, keeps its place in what is read.
LEMMA ReadKept ==
    ASSUME got \in Seq(Byte), rx \in Seq(Byte), rx # <<>>, rx' = Tail(rx),
           got' = Append(got, Head(rx))
    PROVE  /\ got' \in Seq(Byte) /\ Len(got') + Len(rx') = Len(got) + Len(rx)
           /\ \A i \in 1 .. Len(got) + Len(rx) : ReadAt(rx, i)' = ReadAt(rx, i)
<1>1. /\ Head(rx) = rx[1] /\ Head(rx) \in Byte /\ Len(rx') = Len(rx) - 1
      /\ \A i \in 1 .. Len(rx) - 1 : rx'[i] = rx[i + 1]
  <2>1. /\ Head(rx) \in Byte /\ Len(Tail(rx)) = Len(rx) - 1
        /\ \A i \in 1 .. Len(Tail(rx)) : Tail(rx)[i] = rx[i + 1]
    BY HeadTailProperties
  <2>2. Head(rx) = rx[1]
    OBVIOUS
  <2> QED BY <2>1, <2>2
<1>2. /\ got' \in Seq(Byte) /\ Len(got') = Len(got) + 1
      /\ \A i \in 1 .. Len(got) : got'[i] = got[i]
      /\ got'[Len(got) + 1] = rx[1]
  BY <1>1, AppendProperties
<1>3. Len(got) \in Nat /\ Len(rx) \in Nat
  BY LenProperties
<1>4. ASSUME NEW i \in 1 .. Len(got) + Len(rx) PROVE ReadAt(rx, i)' = ReadAt(rx, i)
  <2>1. ReadAt(rx, i)' = IF i <= Len(got) + 1 THEN got'[i] ELSE rx'[i - (Len(got) + 1)]
    BY <1>2 DEF ReadAt
  <2>2. CASE i <= Len(got)
    <3>1. i \in 1 .. Len(got) /\ i <= Len(got) + 1
      BY <1>3, <2>2
    <3> QED BY <1>2, <2>1, <2>2, <3>1 DEF ReadAt
  <2>3. CASE i = Len(got) + 1
    <3>1. i <= Len(got) + 1 /\ ~(i <= Len(got)) /\ i - Len(got) = 1
      BY <1>3, <2>3
    <3> QED BY <1>2, <2>1, <2>3, <3>1 DEF ReadAt
  <2>4. CASE i > Len(got) + 1
    <3>1. /\ ~(i <= Len(got) + 1) /\ ~(i <= Len(got))
          /\ i - (Len(got) + 1) \in 1 .. Len(rx) - 1 /\ (i - (Len(got) + 1)) + 1 = i - Len(got)
      BY <1>3, <2>4
    <3>2. rx'[i - (Len(got) + 1)] = rx[i - Len(got)]
      BY <1>1, <3>1
    <3> QED BY <2>1, <3>1, <3>2 DEF ReadAt
  <2> QED BY <1>3, <2>2, <2>3, <2>4
<1>5. Len(got') + Len(rx') = Len(got) + Len(rx)
  BY <1>1, <1>2, <1>3
<1> QED BY <1>2, <1>4, <1>5

LEMMA PopStep == SdInv /\ Pop => SdInv'
<1> SUFFICES ASSUME SdInv, Pop PROVE SdInv'
  OBVIOUS
<1>1. /\ rx # <<>> /\ rx' = Tail(rx)
      /\ got' = IF keep THEN Append(got, Head(rx)) ELSE got
      /\ card' = card /\ cs_high' = cs_high /\ misframed' = misframed /\ tx' = tx /\ cs' = cs
      /\ out' = out
      /\ pc' = pc /\ step' = step /\ cmd' = cmd /\ block' = block /\ data' = data
      /\ keep' = keep /\ may' = may
  BY DEF Pop, wireVars
<1>2. /\ TypeOK /\ ~misframed /\ DriverInv /\ QueueInv /\ StageInv(card, cs_high, rx, Gone)
      /\ rx \in Seq(Byte) /\ got \in Seq(Byte) /\ Len(rx) <= Depth
  BY Facts DEF TypeOK
<1>3. /\ Len(tx) \in Nat /\ Len(rx) \in Nat /\ Depth \in Nat \ {0} /\ Gone \in Nat
  BY Lengths
<1>4. rx' \in Seq(Byte) /\ Len(rx') = Len(rx) - 1 /\ Head(rx) \in Byte
  BY <1>1, <1>2, HeadTailProperties
<1>5. got' \in Seq(Byte)
  BY <1>1, <1>2, <1>4, AppendProperties
<1>6. Sending' = Sending
  BY <1>1 DEF Sending
<1>7. Gone' = Gone
  BY <1>1, <1>6 DEF Gone
<1> HIDE DEF Gone
<1>8. StageInv(card, cs_high, rx, Gone)'
  <2>0. keep => /\ Len(got) + Len(rx) = Gone
                /\ Len(got') + Len(rx') = Gone
                /\ \A i \in 1 .. Gone : ReadAt(rx, i)' = ReadAt(rx, i)
    <3> SUFFICES ASSUME keep
                 PROVE  /\ Len(got) + Len(rx) = Gone
                        /\ Len(got') + Len(rx') = Gone
                        /\ \A i \in 1 .. Gone : ReadAt(rx, i)' = ReadAt(rx, i)
      OBVIOUS
    <3>1. got' = Append(got, Head(rx)) /\ Len(got) + Len(rx) = Gone
      BY <1>1, Facts
    <3> QED BY <1>1, <1>2, <3>1, ReadKept
  <2>1. /\ card' \in Cards
        /\ cs_high' => card'.phase = "Idle"
        /\ cs_high' => pc' \in {"boot", "released"} \/ (pc' = "sent" /\ Gone' = 0)
        /\ pc' = "released" /\ Gone' = 1 => cs_high'
        /\ Ready' => ~card'.app_cmd_pending
        /\ \A b \in 0 .. NBlocks - 1 : card'.blocks[b] \in may'[b]
    BY <1>1, <1>2, <1>7 DEF StageInv, Ready
  <2>2. keep' => Len(got') + Len(rx') = Gone'
    BY <1>1, <1>7, <2>0
  <2>3. pc' = "sent" => InFrame(card, Gone)'
    BY <1>1, <1>2, <1>7 DEF StageInv, InFrame, Told, Answer, AnswerLen, Ready, Writing
  <2>4. pc' = "r1" => InR1(card, rx, Gone)'
    <3> SUFFICES ASSUME pc = "r1" PROVE InR1(card, rx, Gone)'
      BY <1>1
    <3>1. InR1(card, rx, Gone) /\ keep
      BY <1>2 DEF StageInv, DriverInv
    <3>2. Gone = 1 => ReadAt(rx, 1)' = ReadAt(rx, 1)
      BY <2>0, <3>1
    <3> QED BY <1>1, <1>7, <3>1, <3>2 DEF InR1, Told, Answer, AnswerLen, Ready, Writing
  <2>5. pc' = "token" => InToken(card, rx, Gone)'
    <3> SUFFICES ASSUME pc = "token" PROVE InToken(card, rx, Gone)'
      BY <1>1
    <3>1. InToken(card, rx, Gone) /\ keep
      BY <1>2 DEF StageInv, DriverInv
    <3>2. Gone = 1 => ReadAt(rx, 1)' = ReadAt(rx, 1)
      BY <2>0, <3>1
    <3> QED BY <1>1, <1>7, <3>1, <3>2 DEF InToken, Told, Answer, AnswerLen
  <2>6. pc' = "data" => InData(card, rx, Gone)'
    <3> SUFFICES ASSUME pc = "data" PROVE InData(card, rx, Gone)'
      BY <1>1
    <3>1. InData(card, rx, Gone) /\ keep
      BY <1>2 DEF StageInv, DriverInv
    <3> QED BY <1>1, <1>7, <2>0, <3>1 DEF InData, Told, Answer, AnswerLen
  <2>7. pc' = "block" => InBlock(card, Gone)'
    BY <1>1, <1>2, <1>7 DEF StageInv, InBlock
  <2>8. pc' = "response" => InResponse(card, Gone)'
    BY <1>1, <1>2, <1>7 DEF StageInv, InResponse
  <2> QED BY <2>1, <2>2, <2>3, <2>4, <2>5, <2>6, <2>7, <2>8 DEF StageInv, Cards
<1>9. DriverInv'
  BY <1>1, <1>2 DEF DriverInv, Ready, Reading, Writing
<1>10. QueueInv'
  <2>1. keep' => Len(tx') + Len(rx') <= Depth
    BY <1>1, <1>2, <1>3, <1>4 DEF QueueInv
  <2> QED BY <1>1, <1>2, <1>6, <1>7, <2>1 DEF QueueInv
<1>11. TypeOK'
  <2>1. Len(rx') <= Depth
    BY <1>2, <1>3, <1>4
  <2> QED BY <1>1, <1>2, <1>4, <1>5, <2>1 DEF TypeOK
<1>12. ~misframed'
  BY <1>1, <1>2
<1> QED BY <1>8, <1>9, <1>10, <1>11, <1>12 DEF SdInv

LEMMA StutterStep == SdInv /\ UNCHANGED vars => SdInv'
<1> SUFFICES ASSUME SdInv, UNCHANGED vars PROVE SdInv'
  OBVIOUS
<1>1. /\ card' = card /\ cs_high' = cs_high /\ misframed' = misframed
      /\ tx' = tx /\ rx' = rx /\ cs' = cs /\ out' = out
      /\ pc' = pc /\ step' = step /\ cmd' = cmd /\ block' = block /\ data' = data
      /\ got' = got /\ keep' = keep /\ may' = may
  BY DEF vars, wireVars, driverVars
<1>2. TypeOK /\ ~misframed /\ DriverInv /\ QueueInv /\ StageInv(card, cs_high, rx, Gone)
  BY Facts
<1>3. Sending' = Sending
  BY <1>1 DEF Sending
<1>4. Gone' = Gone
  BY <1>1, <1>3 DEF Gone
<1> HIDE DEF Gone
<1>5. StageInv(card, cs_high, rx, Gone)'
  BY <1>1, <1>2, <1>4, StageKept
<1>6. DriverInv'
  BY <1>1, <1>2 DEF DriverInv, Ready, Reading, Writing
<1>7. QueueInv'
  BY <1>1, <1>2, <1>3, <1>4 DEF QueueInv
<1>8. TypeOK' /\ ~misframed'
  BY <1>1, <1>2 DEF TypeOK
<1> QED BY <1>5, <1>6, <1>7, <1>8 DEF SdInv

-----------------------------------------------------------------------------
(* The theorems.                                                           *)

LEMMA NextOk == SdInv /\ [Next]_vars => SdInv'
<1> SUFFICES ASSUME SdInv, [Next]_vars PROVE SdInv'
  OBVIOUS
<1>1. CASE Push BY <1>1, PushStep
<1>2. CASE Pop BY <1>2, PopStep
<1>3. CASE Boot BY <1>3, BootStep
<1>4. CASE BringUp BY <1>4, BringUpStep
<1>5. CASE Sent BY <1>5, SentStep
<1>6. CASE PollAgain BY <1>6, PollAgainStep
<1>7. CASE BringUpAnswered BY <1>7, BringUpAnsweredStep
<1>8. CASE BlockAnswered BY <1>8, BlockAnsweredStep
<1>9. CASE TokenSeen BY <1>9, TokenSeenStep
<1>10. CASE EndRead BY <1>10, EndReadStep
<1>11. CASE BlockSent BY <1>11, BlockSentStep
<1>12. CASE EndWrite BY <1>12, EndWriteStep
<1>13. CASE Operate BY <1>13, OperateStep
<1>14. CASE TimeOut BY <1>14, TimeOutStep
<1>15. CASE Reset BY <1>15, ResetStep
<1>16. CASE EndOfQuantum BY <1>16, QuantumStep
<1>17. CASE UNCHANGED vars BY <1>17, StutterStep
<1> QED BY <1>1, <1>2, <1>3, <1>4, <1>5, <1>6, <1>7, <1>8, <1>9, <1>10, <1>11, <1>12,
           <1>13, <1>14, <1>15, <1>16, <1>17 DEF Next, Driver

\* In every state of an exchange, the bytes still to go out are the last ones of
\* what its stage sends, and the card is where the ones before them have led it.
THEOREM Invariance == Spec => []SdInv
BY InitOk, NextOk, PTL DEF Spec

\* The FIFOs stay within their depth and a block of the card is always whole.
THEOREM TypeCorrect == Spec => []TypeOK
<1>1. SdInv => TypeOK
  BY DEF SdInv
<1> QED BY <1>1, Invariance, PTL

\* However long a quantum is and wherever an exchange is abandoned, each word
\* meets the card under the chip select the driver wrote it under.
THEOREM WordsMeetTheirChipSelect == Spec => []FramedByItsLines
<1>1. SdInv => FramedByItsLines
  BY DEF SdInv, FramedByItsLines
<1> QED BY <1>1, Invariance, PTL

\* What a completed read returns is a content that the block may hold: the one
\* last read or accepted, or one of a later write that was cut short, whole.
THEOREM BlocksAreNeverMixed == Spec => []ReadsWhatWasWritten
<1>1. SdInv => ReadsWhatWasWritten
  <2> SUFFICES ASSUME SdInv, ReadDone, block < NBlocks PROVE BlockGot \in may[block]
    BY DEF ReadsWhatWasWritten
  <2>1. BlockGot = card.blocks[block] /\ block \in 0 .. NBlocks - 1
    BY ReadBack
  <2> QED BY <2>1, Facts
<1> QED BY <1>1, Invariance, PTL
===============================================================================
