----------------------------- MODULE DmaProofs -----------------------------
(***************************************************************************)
(* Proofs about Dma for every number of channels, depth of the FIFO and    *)
(* set of counts.  RunInv relates the two counts of a channel that was     *)
(* left alone to what firmware wrote and to the transfers it has made.     *)
(***************************************************************************)
EXTENDS Dma, WellFoundedInduction, TLAPS

Channels == [ctrl : Ctrl, trans_count : Nat, trans_count_reload : Nat,
             busy : BOOLEAN]

\* A busy channel that was left alone has the rest of its run before it;
\* an idle one may be triggered with all of it, or has run to its end and
\* may be chained to.
Whole(ch, w, m) ==
    /\ ch.trans_count_reload = w
    /\ IF ch.busy THEN ch.trans_count > 0 /\ m + ch.trans_count = w
                  ELSE ch.trans_count \in {w, 0}

RunInv == \A c \in Channel : whole[c] => Whole(channels[c], written[c], moved[c])

DmaInv == TypeOK /\ RunInv

-----------------------------------------------------------------------------
(* Sets of natural numbers have a least element, however large they are.   *)

\* From the well-foundedness of < on the natural numbers.
LEMMA LeastNatural ==
    ASSUME NEW S \in SUBSET Nat, S # {}
    PROVE  \E x \in S : \A y \in S : x =< y
<1> DEFINE R == OpToRel(<, Nat)
<1>1. PICK x \in S : \A y \in S : ~(<<y, x>> \in R)
  BY NatLessThanWellFounded, WFMin, S # {}
<1>2. \A y \in Nat : y < x => <<y, x>> \in R
  BY DEF OpToRel
<1>3. \A y \in S : ~(y < x)
  BY <1>1, <1>2
<1> QED BY <1>3

-----------------------------------------------------------------------------
(* The operators on one channel.                                           *)

LEMMA SpentFields ==
    ASSUME NEW ch \in Channels
    PROVE  /\ Spent(ch) \in Channels
           /\ Spent(ch).trans_count = IF ch.trans_count = 0 THEN 0
                                      ELSE ch.trans_count - 1
           /\ Spent(ch).trans_count_reload = ch.trans_count_reload
           /\ Spent(ch).busy = (ch.trans_count > 1)
<1> DEFINE k == IF ch.trans_count = 0 THEN 0 ELSE ch.trans_count - 1
           b == ch.trans_count > 1
<1>1. ch.trans_count \in Nat
  BY DEF Channels
<1>2. k \in Nat /\ b \in BOOLEAN
  BY <1>1
<1>3. Spent(ch) = [ch EXCEPT !.trans_count = k, !.busy = b]
  BY DEF Spent
<1> HIDE DEF k, b
<1>4. /\ [ch EXCEPT !.trans_count = k, !.busy = b] \in Channels
      /\ [ch EXCEPT !.trans_count = k, !.busy = b].trans_count = k
      /\ [ch EXCEPT !.trans_count = k, !.busy = b].trans_count_reload
             = ch.trans_count_reload
      /\ [ch EXCEPT !.trans_count = k, !.busy = b].busy = b
  BY <1>2 DEF Channels
<1> QED BY <1>3, <1>4 DEF k, b

LEMMA ChannelTypes ==
    ASSUME NEW ch \in Channels
    PROVE  /\ Triggered(ch) \in Channels
           /\ Chained(ch) \in Channels
           /\ [ch EXCEPT !.busy = FALSE] \in Channels
<1>1. \A h \in Channels : Triggered(h) \in Channels
  BY DEF Channels, Ctrl, Triggered
<1>2. \A r \in Nat : [ch EXCEPT !.trans_count = r] \in Channels
  BY DEF Channels
<1>3. Chained(ch) \in Channels
  BY <1>1, <1>2 DEF Channels, Chained
<1>4. [ch EXCEPT !.busy = FALSE] \in Channels
  BY DEF Channels
<1> QED BY <1>1, <1>3, <1>4

LEMMA WriteTypes ==
    ASSUME NEW ch \in Channels, NEW k \in Nat, NEW val \in Ctrl
    PROVE  Counted(ch, k) \in Channels /\ [ch EXCEPT !.ctrl = val] \in Channels
  BY DEF Channels, Counted

\* An idle channel that is triggered, directly or by a chain, starts on all
\* of what was written.
LEMMA StartWhole ==
    ASSUME NEW ch \in Channels, NEW w \in Nat, NEW m \in Nat,
           Whole(ch, w, m), ~ch.busy
    PROVE  /\ \A t \in {Triggered(ch), Chained(ch)} :
                 Whole(t, w, IF t.busy THEN 0 ELSE m)
  BY DEF Channels, Whole, Triggered, Chained

\* A transfer of a busy channel brings it a word nearer to its end.
LEMMA SpendWhole ==
    ASSUME NEW ch \in Channels, NEW w \in Nat, NEW m \in Nat,
           Whole(ch, w, m), ch.busy
    PROVE  /\ Whole(Spent(ch), w, m + 1)
           /\ ~Spent(ch).busy => m + 1 = w
  BY SpentFields DEF Channels, Whole

\* The channel that is served is one of those that are ready.
LEMMA MinIn ==
    ASSUME NEW S \in SUBSET Nat, S # {}
    PROVE  Min(S) \in S
  BY LeastNatural DEF Min

-----------------------------------------------------------------------------
(* What a register access and a transfer make of the channels.             *)

LEMMA ChannelOf ==
    ASSUME TypeOK
    PROVE  /\ channels \in [Channel -> Channels]
           /\ \A c \in Channel : /\ channels[c] \in Channels
                                  /\ channels[c].ctrl.chain_to \in Channel
                                  /\ written[c] \in Nat /\ moved[c] \in Nat
  BY DEF TypeOK, Channels, Ctrl

LEMMA AccessStep ==
    ASSUME TypeOK, NEW S \in SUBSET Channel, NEW new,
           \A c \in S : new[c] \in Channels,
           Access(S, new)
    PROVE  /\ channels' \in [Channel -> Channels]
           /\ moved' \in [Channel -> Nat]
           /\ ops' \in 0 .. MaxOps
           /\ \A c \in Channel :
                 /\ channels'[c] = IF c \in S THEN new[c] ELSE channels[c]
                 /\ moved'[c] = IF channels'[c].busy /\ ~channels[c].busy
                                THEN 0 ELSE moved[c]
<1>1. channels \in [Channel -> Channels] /\ moved \in [Channel -> Nat]
  BY ChannelOf DEF TypeOK
<1>2. \A c \in Channel : channels'[c] = IF c \in S THEN new[c] ELSE channels[c]
  BY DEF Access
<1>3. channels' \in [Channel -> Channels]
  BY <1>1 DEF Access
<1>4. moved' = [c \in Channel |-> IF channels'[c].busy /\ ~channels[c].busy
                                   THEN 0 ELSE moved[c]]
  BY DEF Access
<1>5. ops' \in 0 .. MaxOps
  BY DmaAssumption DEF Access, TypeOK
<1> QED BY <1>1, <1>2, <1>3, <1>4, <1>5

LEMMA DisturbStep ==
    ASSUME TypeOK, NEW S, Disturb(S)
    PROVE  /\ whole' \in [Channel -> BOOLEAN]
           /\ \A c \in Channel : whole'[c] = (whole[c] /\ ~(c \in S /\ channels[c].busy))
  BY DEF Disturb, TypeOK

LEMMA TransferStep ==
    ASSUME TypeOK, NEW c \in Channel, Transfer(c)
    PROVE  LET to == channels[c].ctrl.chain_to
               rings == ~Spent(channels[c]).busy /\ to # c
           IN  /\ channels' \in [Channel -> Channels]
               /\ moved' \in [Channel -> Nat]
               /\ channels'[c] = Spent(channels[c])
               /\ moved'[c] = moved[c] + 1
               /\ whole'[c] = whole[c]
               /\ whole' \in [Channel -> BOOLEAN]
               /\ \A d \in Channel \ {c} :
                     /\ channels'[d] = IF rings /\ d = to THEN Chained(channels[d])
                                      ELSE channels[d]
                     /\ moved'[d] = IF channels'[d].busy /\ ~channels[d].busy
                                   THEN 0 ELSE moved[d]
                     /\ whole'[d] = (whole[d] /\ ~(rings /\ d = to /\ channels[d].busy))
<1> DEFINE ch    == channels[c]
           to    == ch.ctrl.chain_to
           next  == [channels EXCEPT ![c] = Spent(ch)]
           rings == ~Spent(ch).busy /\ to # c
<1>1. /\ channels \in [Channel -> Channels] /\ moved \in [Channel -> Nat]
      /\ to \in Channel
  BY ChannelOf DEF TypeOK
<1>2. /\ channels' = IF rings THEN [next EXCEPT ![to] = Chained(@)] ELSE next
      /\ moved' = [d \in Channel |->
                      IF d = c THEN moved[d] + 1
                      ELSE IF channels'[d].busy /\ ~channels[d].busy THEN 0
                      ELSE moved[d]]
      /\ Disturb(IF rings THEN {to} ELSE {})
  BY DEF Transfer
<1>3. Spent(ch) \in Channels /\ Chained(channels[to]) \in Channels
  <2>1. \A h \in Channels : Spent(h) \in Channels
    BY SpentFields
  <2>2. \A h \in Channels : Chained(h) \in Channels
    BY ChannelTypes
  <2> QED BY <1>1, <2>1, <2>2
<1> HIDE DEF ch, to, rings
<1>4. /\ channels' \in [Channel -> Channels]
      /\ channels'[c] = Spent(ch)
      /\ \A d \in Channel \ {c} :
            channels'[d] = IF rings /\ d = to THEN Chained(channels[d]) ELSE channels[d]
  <2>1. rings => to # c
    BY DEF rings
  <2> QED BY <1>1, <1>2, <1>3, <2>1
<1>5. /\ whole' \in [Channel -> BOOLEAN]
      /\ \A d \in Channel :
            whole'[d] = (whole[d] /\ ~(d \in (IF rings THEN {to} ELSE {}) /\ channels[d].busy))
  BY <1>2, DisturbStep
<1>6. whole'[c] = whole[c]
  <2>1. c \notin (IF rings THEN {to} ELSE {})
    BY DEF rings
  <2> QED BY <1>5, <2>1 DEF TypeOK
<1>7. /\ moved' \in [Channel -> Nat]
      /\ moved'[c] = moved[c] + 1
      /\ \A d \in Channel \ {c} :
            moved'[d] = IF channels'[d].busy /\ ~channels[d].busy THEN 0 ELSE moved[d]
  BY <1>1, <1>2
<1> QED BY <1>4, <1>5, <1>6, <1>7 DEF ch, to, rings

-----------------------------------------------------------------------------
(* The invariant.                                                          *)

LEMMA TriggerStep ==
    ASSUME DmaInv, NEW S \in SUBSET Channel, WriteTrigger(S)
    PROVE  DmaInv'
<1> DEFINE new == [c \in S |-> Triggered(channels[c])]
<1>1. TypeOK
  BY DEF DmaInv
<1>2. \A c \in S : new[c] = Triggered(channels[c]) /\ new[c] \in Channels
  BY <1>1, ChannelOf, ChannelTypes
<1>3. Access(S, new) /\ Disturb(S)
  BY DEF WriteTrigger
<1> HIDE DEF new
<1>4. TypeOK'
  BY <1>1, <1>2, <1>3, AccessStep, DisturbStep DEF WriteTrigger, TypeOK, Channels, irqVars, fifo
<1>5. ASSUME NEW c \in Channel, whole'[c]
      PROVE  Whole(channels'[c], written'[c], moved'[c])
  <2>1. /\ channels'[c] = IF c \in S THEN new[c] ELSE channels[c]
        /\ moved'[c] = IF channels'[c].busy /\ ~channels[c].busy THEN 0 ELSE moved[c]
    BY <1>1, <1>2, <1>3, AccessStep
  <2>2. whole[c] /\ ~(c \in S /\ channels[c].busy) /\ written' = written
    BY <1>1, <1>3, <1>5, DisturbStep DEF WriteTrigger
  <2>3. Whole(channels[c], written[c], moved[c])
    BY <2>2 DEF DmaInv, RunInv
  <2>4. CASE c \notin S
    BY <2>1, <2>2, <2>3, <2>4
  <2>5. CASE c \in S
    BY <1>1, <1>2, <2>1, <2>2, <2>3, <2>5, ChannelOf, StartWhole
  <2> QED BY <2>4, <2>5
<1> QED BY <1>4, <1>5 DEF DmaInv, RunInv

LEMMA CtrlStep ==
    ASSUME DmaInv, NEW c \in Channel, NEW val \in Ctrls, NEW triggers \in BOOLEAN,
           WriteCtrl(c, val, triggers)
    PROVE  DmaInv'
<1> DEFINE ch  == [channels[c] EXCEPT !.ctrl = val]
           h   == IF triggers THEN Triggered(ch) ELSE ch
           new == [d \in {c} |-> h]
           S   == IF triggers THEN {c} ELSE {}
<1>1. TypeOK /\ val \in Ctrl
  BY DmaAssumption DEF DmaInv
<1>2. ch \in Channels /\ h \in Channels
  BY <1>1, ChannelOf, WriteTypes, ChannelTypes
<1>3. Access({c}, new) /\ Disturb(S)
  BY DEF WriteCtrl
<1>4. {c} \in SUBSET Channel /\ \A d \in {c} : new[d] = h /\ new[d] \in Channels
  BY <1>2
<1> HIDE DEF new, h, S, ch
<1>5. TypeOK'
  <2>1. /\ channels' \in [Channel -> Channels] /\ moved' \in [Channel -> Nat]
        /\ ops' \in 0 .. MaxOps
    BY <1>1, <1>3, <1>4, AccessStep
  <2>2. whole' \in [Channel -> BOOLEAN]
    BY <1>1, <1>3, DisturbStep
  <2> QED BY <1>1, <2>1, <2>2 DEF WriteCtrl, TypeOK, Channels, irqVars, fifo
<1>6. ASSUME NEW d \in Channel, whole'[d]
      PROVE  Whole(channels'[d], written'[d], moved'[d])
  <2>1. /\ channels'[d] = IF d = c THEN h ELSE channels[d]
        /\ moved'[d] = IF channels'[d].busy /\ ~channels[d].busy THEN 0 ELSE moved[d]
    <3>1. \A e \in Channel :
             /\ channels'[e] = IF e \in {c} THEN new[e] ELSE channels[e]
             /\ moved'[e] = IF channels'[e].busy /\ ~channels[e].busy THEN 0 ELSE moved[e]
      BY <1>1, <1>3, <1>4, AccessStep
    <3> QED BY <1>4, <3>1
  <2>2. whole[d] /\ ~(d \in S /\ channels[d].busy) /\ written' = written
    BY <1>1, <1>3, <1>6, DisturbStep DEF WriteCtrl
  <2>3. Whole(channels[d], written[d], moved[d])
    BY <2>2 DEF DmaInv, RunInv
  <2>4. CASE d # c
    BY <2>1, <2>2, <2>3, <2>4
  <2>5. CASE d = c
    <3>1. Whole(ch, written[c], moved[c]) /\ ch.busy = channels[c].busy
      BY <1>1, <2>3, <2>5, ChannelOf DEF ch, Whole, Channels
    <3>2. CASE ~triggers
      BY <2>1, <2>2, <2>5, <3>1, <3>2 DEF h
    <3>3. CASE triggers
      BY <1>1, <1>2, <2>1, <2>2, <2>5, <3>1, <3>3, ChannelOf, StartWhole DEF h, S
    <3> QED BY <3>2, <3>3
  <2> QED BY <2>4, <2>5
<1> QED BY <1>5, <1>6 DEF DmaInv, RunInv

\* A count that is written starts a run of its own, unless it disturbs one.
LEMMA CountStep ==
    ASSUME DmaInv, NEW c \in Channel, NEW k \in Counts, NEW triggers \in BOOLEAN,
           WriteCount(c, k, triggers)
    PROVE  DmaInv'
<1> DEFINE ch  == Counted(channels[c], k)
           h   == IF triggers THEN Triggered(ch) ELSE ch
           new == [d \in {c} |-> h]
<1>1. TypeOK /\ k \in Nat
  BY DmaAssumption DEF DmaInv
<1>2. ch \in Channels /\ h \in Channels
  <2>1. \A v \in Ctrl : Counted(channels[c], k) \in Channels
    BY <1>1, ChannelOf, WriteTypes
  <2>2. channels[c].ctrl \in Ctrl
    BY <1>1, ChannelOf DEF Channels
  <2> QED BY <2>1, <2>2, ChannelTypes
<1>3. /\ Access({c}, new)
      /\ written' = [written EXCEPT ![c] = k]
      /\ whole' = [whole EXCEPT ![c] = ~channels[c].busy]
  BY DEF WriteCount
<1>4. {c} \in SUBSET Channel /\ \A d \in {c} : new[d] = h /\ new[d] \in Channels
  BY <1>2
<1> HIDE DEF new, h, ch
<1>5. TypeOK'
  <2>1. /\ channels' \in [Channel -> Channels] /\ moved' \in [Channel -> Nat]
        /\ ops' \in 0 .. MaxOps
    BY <1>1, <1>3, <1>4, AccessStep
  <2>2. written' \in [Channel -> Nat] /\ whole' \in [Channel -> BOOLEAN]
    BY <1>1, <1>3 DEF TypeOK
  <2> QED BY <1>1, <2>1, <2>2 DEF WriteCount, TypeOK, Channels, irqVars, fifo
<1>6. ASSUME NEW d \in Channel, whole'[d]
      PROVE  Whole(channels'[d], written'[d], moved'[d])
  <2>1. /\ channels'[d] = IF d = c THEN h ELSE channels[d]
        /\ moved'[d] = IF channels'[d].busy /\ ~channels[d].busy THEN 0 ELSE moved[d]
    <3>1. \A e \in Channel :
             /\ channels'[e] = IF e \in {c} THEN new[e] ELSE channels[e]
             /\ moved'[e] = IF channels'[e].busy /\ ~channels[e].busy THEN 0 ELSE moved[e]
      BY <1>1, <1>3, <1>4, AccessStep
    <3> QED BY <1>4, <3>1
  <2>2. CASE d # c
    <3>1. whole[d] /\ written'[d] = written[d]
      BY <1>1, <1>3, <1>6, <2>2 DEF TypeOK
    <3> QED BY <2>1, <2>2, <3>1 DEF DmaInv, RunInv
  <2>3. CASE d = c
    <3>1. ~channels[c].busy /\ written'[c] = k
      BY <1>1, <1>3, <1>6, <2>3 DEF TypeOK
    <3>2. Whole(ch, k, moved[c]) /\ ~ch.busy
      BY <1>1, <3>1, ChannelOf DEF ch, Counted, Whole, Channels
    <3>3. Whole(h, k, IF h.busy THEN 0 ELSE moved[c])
      BY <1>1, <1>2, <3>2, ChannelOf, StartWhole DEF h
    <3> QED BY <2>1, <2>3, <3>1, <3>3
  <2> QED BY <2>2, <2>3
<1> QED BY <1>5, <1>6 DEF DmaInv, RunInv

LEMMA AbortStep ==
    ASSUME DmaInv, NEW S \in SUBSET Channel, Abort(S)
    PROVE  DmaInv'
<1> DEFINE new == [c \in S |-> [channels[c] EXCEPT !.busy = FALSE]]
<1>1. TypeOK
  BY DEF DmaInv
<1>2. \A c \in S : /\ new[c] = [channels[c] EXCEPT !.busy = FALSE]
                    /\ new[c] \in Channels
  BY <1>1, ChannelOf, ChannelTypes
<1>3. Access(S, new) /\ Disturb(S)
  BY DEF Abort
<1> HIDE DEF new
<1>4. TypeOK'
  <2>1. /\ channels' \in [Channel -> Channels] /\ moved' \in [Channel -> Nat]
        /\ ops' \in 0 .. MaxOps
    BY <1>1, <1>2, <1>3, AccessStep
  <2>2. whole' \in [Channel -> BOOLEAN]
    BY <1>1, <1>3, DisturbStep
  <2> QED BY <1>1, <2>1, <2>2 DEF Abort, TypeOK, Channels, irqVars, fifo
<1>5. ASSUME NEW c \in Channel, whole'[c]
      PROVE  Whole(channels'[c], written'[c], moved'[c])
  <2>1. /\ channels'[c] = IF c \in S THEN new[c] ELSE channels[c]
        /\ moved'[c] = IF channels'[c].busy /\ ~channels[c].busy THEN 0 ELSE moved[c]
    BY <1>1, <1>2, <1>3, AccessStep
  <2>2. whole[c] /\ ~(c \in S /\ channels[c].busy) /\ written' = written
    BY <1>1, <1>3, <1>5, DisturbStep DEF Abort
  <2>3. Whole(channels[c], written[c], moved[c]) /\ channels[c] \in Channels
    BY <1>1, <2>2, ChannelOf DEF DmaInv, RunInv
  <2>4. channels'[c] = channels[c]
    BY <1>2, <2>1, <2>2, <2>3 DEF Channels
  <2> QED BY <2>1, <2>2, <2>3, <2>4
<1> QED BY <1>4, <1>5 DEF DmaInv, RunInv

\* Nothing happens to a channel.
LEMMA OtherStep ==
    ASSUME DmaInv, NEW S \in SUBSET Channel, NEW on \in BOOLEAN,
           NEW d \in Depths,
           ClearIntr(S) \/ WriteInte(S) \/ WriteIntf(S) \/ SetPio(on)
              \/ JoinFifo(d) \/ WriteFifo \/ TakeIrq \/ Pull
    PROVE  DmaInv' /\ channels' = channels
<1>1. TypeOK
  BY DEF DmaInv
<1>2. depth \in Nat /\ Pushed \in 0 .. depth
  BY <1>1, DmaAssumption DEF TypeOK, Depths, Pushed
<1>3. CASE TakeIrq \/ Pull
  <2>1. level' \in 0 .. depth /\ nvic' \in BOOLEAN
    <3>1. level \in 0 .. depth /\ nvic \in BOOLEAN
      BY <1>1 DEF TypeOK
    <3>2. CASE TakeIrq
      BY <3>1, <3>2 DEF TakeIrq, fifo
    <3>3. CASE Pull
      BY <1>2, <3>1, <3>3 DEF Pull
    <3> QED BY <1>3, <3>2, <3>3
  <2>2. UNCHANGED <<runVars, irqVars, depth, pio, ops>>
    BY <1>3 DEF TakeIrq, Pull, fifo
  <2>3. TypeOK'
    BY <1>1, <2>1, <2>2 DEF TypeOK, runVars, irqVars
  <2> QED BY <2>2, <2>3 DEF DmaInv, RunInv, runVars
<1>4. CASE ~(TakeIrq \/ Pull)
  <2>1. Elsewhere
    BY <1>4 DEF ClearIntr, WriteInte, WriteIntf, SetPio, JoinFifo, WriteFifo
  <2>2. channels' = channels /\ moved' = moved /\ ops' \in 0 .. MaxOps
    <3>1. Access({}, <<>>)
      BY <2>1 DEF Elsewhere
    <3>2. channels' = [c \in Channel |-> channels[c]]
      BY <3>1 DEF Access
    <3>3. channels' = channels
      BY <1>1, <3>2, ChannelOf
    <3>4. moved' = [c \in Channel |-> moved[c]]
      BY <3>1, <3>3 DEF Access
    <3>5. ops' \in 0 .. MaxOps
      BY <1>1, <3>1, DmaAssumption DEF Access, TypeOK
    <3> QED BY <1>1, <3>3, <3>4, <3>5 DEF TypeOK
  <2>3. depth' \in Depths /\ level' \in 0 .. depth'
    <3>1. 0 \in 0 .. d
      BY DmaAssumption DEF Depths
    <3> QED BY <1>1, <1>2, <1>4, <3>1
            DEF TypeOK, ClearIntr, WriteInte, WriteIntf, SetPio, JoinFifo, WriteFifo, fifo
  <2>4. /\ intr' \in SUBSET Channel /\ inte' \in SUBSET Channel
        /\ intf' \in SUBSET Channel /\ pio' \in BOOLEAN
    BY <1>1, <1>4
    DEF TypeOK, ClearIntr, WriteInte, WriteIntf, SetPio, JoinFifo, WriteFifo, irqVars
  <2>5. TypeOK'
    BY <1>1, <2>1, <2>2, <2>3, <2>4 DEF TypeOK, Elsewhere
  <2> QED BY <2>1, <2>2, <2>5 DEF DmaInv, RunInv, Elsewhere
<1> QED BY <1>3, <1>4

LEMMA ServeStep ==
    ASSUME DmaInv, NEW c \in Channel, channels[c].busy, Transfer(c),
           UNCHANGED <<written, inte, intf, depth, pio, ops>>, nvic' \in BOOLEAN
    PROVE  DmaInv'
<1> DEFINE to == channels[c].ctrl.chain_to
           rings == ~Spent(channels[c]).busy /\ to # c
<1>1. TypeOK
  BY DEF DmaInv
<1>2. /\ channels' \in [Channel -> Channels]
      /\ moved' \in [Channel -> Nat]
      /\ channels'[c] = Spent(channels[c])
      /\ moved'[c] = moved[c] + 1
      /\ whole'[c] = whole[c]
      /\ whole' \in [Channel -> BOOLEAN]
      /\ \A d \in Channel \ {c} :
            /\ channels'[d] = IF rings /\ d = to THEN Chained(channels[d])
                             ELSE channels[d]
            /\ moved'[d] = IF channels'[d].busy /\ ~channels[d].busy
                          THEN 0 ELSE moved[d]
            /\ whole'[d] = (whole[d] /\ ~(rings /\ d = to /\ channels[d].busy))
  BY <1>1, TransferStep
<1> HIDE DEF rings, to
<1>3. TypeOK'
  <2>1. level' \in 0 .. depth
    BY <1>1, DmaAssumption DEF Transfer, TypeOK, Depths, Pushed
  <2>2. intr' \in SUBSET Channel
    BY <1>1 DEF Transfer, TypeOK
  <2> QED BY <1>1, <1>2, <2>1, <2>2 DEF TypeOK, Channels
<1>4. ASSUME NEW d \in Channel, whole'[d]
      PROVE  Whole(channels'[d], written'[d], moved'[d])
  <2>1. whole[d]
    BY <1>2, <1>4
  <2>2. Whole(channels[d], written[d], moved[d]) /\ written' = written
    BY <2>1 DEF DmaInv, RunInv
  <2>3. CASE d = c
    BY <1>1, <1>2, <2>2, <2>3, ChannelOf, SpendWhole
  <2>4. CASE d # c /\ ~(rings /\ d = to)
    BY <1>2, <2>2, <2>4
  <2>5. CASE d # c /\ rings /\ d = to
    <3>1. ~channels[d].busy
      BY <1>2, <1>4, <2>5
    <3>2. Whole(Chained(channels[d]), written[d],
                IF Chained(channels[d]).busy THEN 0 ELSE moved[d])
      BY <1>1, <2>2, <3>1, ChannelOf, StartWhole
    <3> QED BY <1>2, <2>2, <2>5, <3>1, <3>2
  <2> QED BY <2>3, <2>4, <2>5
<1> QED BY <1>3, <1>4 DEF DmaInv, RunInv

\* A tick serves a channel that is busy, or none.
LEMMA Served ==
    ASSUME TypeOK, Tick, Ready # {}
    PROVE  /\ Min(Ready) \in Channel
           /\ channels[Min(Ready)].busy
           /\ Transfer(Min(Ready))
<1>1. Ready \in SUBSET Nat
  BY DmaAssumption DEF Ready, Channel
<1>2. Min(Ready) \in Ready
  BY <1>1, MinIn
<1>3. Transfer(Min(Ready))
  BY DEF Tick
<1> QED BY <1>2, <1>3 DEF Ready

LEMMA EndStep ==
    ASSUME DmaInv, EndOfQuantum
    PROVE  DmaInv'
<1>1. TypeOK
  BY DEF DmaInv
<1>2. UNCHANGED <<written, inte, intf, depth, pio, ops>> /\ nvic' \in BOOLEAN
  BY DEF EndOfQuantum, TypeOK, DmaInv
<1>3. CASE Ready = {}
  <2>1. UNCHANGED <<channels, moved, whole, intr, level>>
    BY <1>3 DEF EndOfQuantum, Tick
  <2> QED BY <1>1, <1>2, <2>1 DEF DmaInv, TypeOK, RunInv
<1>4. CASE Ready # {}
  <2>1. Tick
    BY DEF EndOfQuantum
  <2>2. Min(Ready) \in Channel /\ channels[Min(Ready)].busy /\ Transfer(Min(Ready))
    BY <1>1, <1>4, <2>1, Served
  <2> QED BY <1>2, <2>2, ServeStep
<1> QED BY <1>3, <1>4

LEMMA InitInv == Init => DmaInv
<1> SUFFICES ASSUME Init PROVE DmaInv
  OBVIOUS
<1>1. PICK val \in [Channel -> Ctrls] :
        channels = [c \in Channel |-> Idle(val[c], written[c])]
  BY DEF Init
<1>2. written \in [Channel -> Nat]
  BY DmaAssumption DEF Init
<1>3. \A c \in Channel : /\ channels[c] = Idle(val[c], written[c])
                         /\ channels[c] \in Channels
  BY <1>1, <1>2, DmaAssumption DEF Idle, Channels
<1>4. channels \in [Channel -> Channels]
  BY <1>1, <1>3
<1>5. TypeOK
  <2>1. /\ moved \in [Channel -> Nat] /\ whole \in [Channel -> BOOLEAN]
        /\ intr \in SUBSET Channel /\ inte \in SUBSET Channel /\ intf \in SUBSET Channel
        /\ nvic \in BOOLEAN /\ pio \in BOOLEAN
    BY DEF Init
  <2>2. depth \in Depths /\ level \in 0 .. depth /\ ops \in 0 .. MaxOps
    BY DmaAssumption DEF Init, Depths
  <2> QED BY <1>2, <1>4, <2>1, <2>2 DEF TypeOK, Channels
<1>6. RunInv
  BY <1>2, <1>3 DEF Init, RunInv, Whole, Idle
<1> QED BY <1>5, <1>6 DEF DmaInv

LEMMA NextInv == DmaInv /\ [Next]_vars => DmaInv'
<1> SUFFICES ASSUME DmaInv, [Next]_vars PROVE DmaInv'
  OBVIOUS
<1>1. CASE \E S \in SUBSET Channel : WriteTrigger(S) \/ Abort(S)
  BY <1>1, TriggerStep, AbortStep
<1>2. CASE \E c \in Channel, triggers \in BOOLEAN, val \in Ctrls :
              WriteCtrl(c, val, triggers)
  BY <1>2, CtrlStep
<1>3. CASE \E c \in Channel, triggers \in BOOLEAN, k \in Counts :
              WriteCount(c, k, triggers)
  BY <1>3, CountStep
<1>4. CASE \E S \in SUBSET Channel, on \in BOOLEAN, d \in Depths :
              ClearIntr(S) \/ WriteInte(S) \/ WriteIntf(S) \/ SetPio(on)
                 \/ JoinFifo(d) \/ WriteFifo \/ TakeIrq \/ Pull
  BY <1>4, OtherStep
<1>5. CASE EndOfQuantum
  BY <1>5, EndStep
<1>6. CASE UNCHANGED vars
  BY <1>6 DEF vars, runVars, irqVars, fifo, DmaInv, TypeOK, RunInv
<1> QED BY <1>1, <1>2, <1>3, <1>4, <1>5, <1>6 DEF Next, Firmware, Depths

-----------------------------------------------------------------------------
(* The theorems.                                                           *)

\* The controller's registers, FIFO level and counts keep their types.
THEOREM TypeCorrect == Spec => []TypeOK
<1>1. DmaInv => TypeOK
  BY DEF DmaInv
<1> QED BY <1>1, InitInv, NextInv, PTL DEF Spec

LEMMA EndOfRun ==
    ASSUME DmaInv, Next, NEW c \in Channel,
           channels[c].busy, ~channels'[c].busy, whole'[c]
    PROVE  moved'[c] = written[c]
<1>1. TypeOK
  BY DEF DmaInv
<1>2. ~\E S \in SUBSET Channel : WriteTrigger(S) \/ Abort(S)
  <2> SUFFICES ASSUME NEW S \in SUBSET Channel, WriteTrigger(S) \/ Abort(S)
               PROVE  FALSE
    OBVIOUS
  <2>1. Disturb(S)
    BY DEF WriteTrigger, Abort
  <2>2. c \notin S
    BY <1>1, <2>1, DisturbStep
  <2>3. channels'[c] = channels[c]
    BY <2>2 DEF WriteTrigger, Abort, Access
  <2> QED BY <2>3
<1>3. ~\E d \in Channel, triggers \in BOOLEAN, val \in Ctrls : WriteCtrl(d, val, triggers)
  <2> SUFFICES ASSUME NEW d \in Channel, NEW triggers \in BOOLEAN, NEW val \in Ctrls,
                      WriteCtrl(d, val, triggers)
               PROVE  FALSE
    OBVIOUS
  <2> DEFINE ch == [channels[d] EXCEPT !.ctrl = val]
             h  == IF triggers THEN Triggered(ch) ELSE ch
  <2>1. channels'[c] = IF c = d THEN h ELSE channels[c]
    BY DEF WriteCtrl, Access
  <2>2. c = d
    BY <2>1
  <2>3. ch \in Channels /\ ch.busy
    BY <1>1, <2>2, ChannelOf, DmaAssumption DEF Channels
  <2>4. h.busy
    BY <2>3 DEF Triggered, Channels
  <2> QED BY <2>1, <2>2, <2>4
<1>4. ~\E d \in Channel, triggers \in BOOLEAN, k \in Counts : WriteCount(d, k, triggers)
  <2> SUFFICES ASSUME NEW d \in Channel, NEW triggers \in BOOLEAN, NEW k \in Counts,
                      WriteCount(d, k, triggers)
               PROVE  FALSE
    OBVIOUS
  <2>1. c # d
    BY <1>1 DEF WriteCount, TypeOK
  <2>2. channels'[c] = channels[c]
    BY <2>1 DEF WriteCount, Access
  <2> QED BY <2>2
<1>5. ~\E S \in SUBSET Channel, on \in BOOLEAN, d \in Depths :
          ClearIntr(S) \/ WriteInte(S) \/ WriteIntf(S) \/ SetPio(on)
             \/ JoinFifo(d) \/ WriteFifo \/ TakeIrq \/ Pull
  BY OtherStep
<1>6. EndOfQuantum
  BY <1>2, <1>3, <1>4, <1>5 DEF Next, Firmware, Depths
<1>7. Tick /\ written' = written
  BY <1>6 DEF EndOfQuantum
<1>8. Ready # {}
  BY <1>7 DEF Tick
<1> DEFINE d == Min(Ready)
<1>9. d \in Channel /\ channels[d].busy /\ Transfer(d)
  BY <1>1, <1>7, <1>8, Served
<1> HIDE DEF d
<1>10. CASE d = c
  <2>1. channels'[c] = Spent(channels[c]) /\ moved'[c] = moved[c] + 1 /\ whole[c]
    BY <1>1, <1>9, <1>10, TransferStep
  <2>2. Whole(channels[c], written[c], moved[c])
    BY <2>1 DEF DmaInv, RunInv
  <2> QED BY <1>1, <2>1, <2>2, ChannelOf, SpendWhole
<1>11. CASE d # c
  <2> DEFINE to == channels[d].ctrl.chain_to
             rings == ~Spent(channels[d]).busy /\ to # d
  <2>1. /\ channels'[c] = IF rings /\ c = to THEN Chained(channels[c]) ELSE channels[c]
        /\ whole'[c] = (whole[c] /\ ~(rings /\ c = to /\ channels[c].busy))
    BY <1>1, <1>9, <1>11, TransferStep
  <2> QED BY <2>1
<1> QED BY <1>10, <1>11

\* A channel that is left alone makes exactly the transfers firmware wrote.
THEOREM RunsAreWhole == Spec => RunIsWhole
<1>1. DmaInv /\ [Next]_vars =>
        [\A c \in Channel :
            channels[c].busy /\ ~channels'[c].busy /\ whole'[c]
               => moved'[c] = written[c]]_vars
  BY EndOfRun
<1> QED BY <1>1, InitInv, NextInv, PTL DEF Spec, RunIsWhole
=============================================================================
