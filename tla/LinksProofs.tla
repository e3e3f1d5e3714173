---------------------------- MODULE LinksProofs -----------------------------
(***************************************************************************)
(* The ways to the outside: serial ports, SPI controllers, SPI flash and   *)
(* TPM, for every size of their rings, FIFOs, arrays and buffers.          *)
(*                                                                         *)
(* A serial port needs an invariant about each direction: the ring is a    *)
(* run of numbers that ends with the last byte sent, and the byte held or  *)
(* the next one typed follows the last one read or lost.  The SPI          *)
(* controller's EOT follows from the counter, which counts down exactly    *)
(* what the transfer has not moved yet.  The SPI flash's file follows from *)
(* the dirty mark, which outside a page program only a failed write or a   *)
(* short one leaves.  The TPM never has a response without its command.    *)
(***************************************************************************)
EXTENDS MCLinks, Induction, SequenceTheorems

-----------------------------------------------------------------------------
(* The serial ports: the ring keeps the newest bytes and the input its order. *)

IoState == [fd : Fds, so : BOOLEAN, txq : Seq(Nat), rxb : Nat, base : Nat]
HostEnd == [typed : Nat, next : Nat, room : Nat, last : Nat]
UartDev == [ue : BOOLEAN, clk : BOOLEAN, on : BOOLEAN, rxne : BOOLEAN, txe : BOOLEAN,
            rxie : BOOLEAN, txie : BOOLEAN, want : Nat, got : Nat, wiped : BOOLEAN]

\* Every byte after base is in the ring, or else the ring is full.
Full(i, n) ==
  i.base <= n /\ Len(i.txq) = (IF n - i.base < TxSlots THEN n - i.base ELSE TxSlots)

\* The transmit side: the ring holds the last bytes of the n that were sent, and the host
\* has seen none of them.
Sending(i, h, n) ==
  /\ i \in IoState /\ h \in HostEnd /\ n \in Nat
  /\ Len(i.txq) <= TxSlots /\ h.room <= PtyRoom
  /\ h.last <= i.base /\ Full(i, n)
  /\ \A k \in 1 .. Len(i.txq) : i.txq[k] = n - Len(i.txq) + k

Later(l, g) == IF l > g THEN l ELSE g

\* The receive side: the byte held, or else the next one of the host, follows the last one
\* that was read or lost.  Bytes are held and wait only at a pseudo terminal.
Receiving(i, h, l, g) ==
  /\ i \in IoState /\ h \in HostEnd
  /\ l \in 0 .. h.typed /\ g \in 0 .. h.typed /\ h.next <= h.typed + 1
  /\ i.rxb = 0 => h.next = Later(l, g) + 1
  /\ i.rxb # 0 => i.rxb = Later(l, g) + 1 /\ h.next = Later(l, g) + 2
  /\ i.rxb # 0 \/ h.next <= h.typed => i.fd = "pty"
  /\ i.so => uartStdout /\ i.fd = "stdout"

Port(i, h, n, l, g) == Sending(i, h, n) /\ Receiving(i, h, l, g)

UsartInv ==
  /\ cpu \in Targets
  /\ {uartStdout, ready, booted, uirq} \subseteq BOOLEAN
  /\ dev \in UartDev
  /\ Port(io, host, sent, lastRx, rxGone)
  /\ sent <= MaxSent[cpu] /\ host.typed <= MaxTyped[cpu]
  /\ cpu \in Stm32 /\ io.fd = "pty" => dev.on

\* The step's part of NoByteSkipped.
InOrder == lastRx' # lastRx => lastRx' = Later(lastRx, rxGone) + 1

\* mm_uart_io_queue_tx: the ring goes on without a gap, at the cost of its oldest byte.
LEMMA QueueIs ==
  ASSUME NEW i, NEW h, NEW n, Sending(i, h, n)
  PROVE  LET j == mm_uart_io_queue_tx(i, n + 1)
         IN  Sending(j, h, n + 1) /\ j.fd = i.fd /\ j.so = i.so /\ j.rxb = i.rxb
  <1>. DEFINE q == i.txq
              t == IF Len(q) = TxSlots THEN Tail(q) ELSE q
              r == Append(t, n + 1)
              j == [i EXCEPT !.txq = r]
  <1>0. /\ i \in IoState /\ n \in Nat /\ q \in Seq(Nat) /\ TxSlots \in Nat \ {0} /\ Len(q) <= TxSlots
        /\ h.last \in Nat /\ h.last <= i.base /\ i.base \in Nat /\ i.base <= n /\ Len(q) \in Nat
        /\ Len(q) = (IF n - i.base < TxSlots THEN n - i.base ELSE TxSlots)
        /\ \A k \in 1 .. Len(q) : q[k] = n - Len(q) + k
    BY SerialBounds DEF Sending, Full, IoState, HostEnd
  <1>a. n \in Nat /\ q \in Seq(Nat) /\ Len(q) \in Nat /\ TxSlots \in Nat \ {0} /\ Len(q) <= TxSlots
    BY <1>0
  <1>b. i.base \in Nat /\ i.base <= n /\ Len(q) = (IF n - i.base < TxSlots THEN n - i.base ELSE TxSlots)
    BY <1>0
  <1>1. mm_uart_io_queue_tx(i, n + 1) = j
    BY DEF mm_uart_io_queue_tx
  <1>2. /\ t \in Seq(Nat) /\ Len(t) < TxSlots /\ Len(t) \in Nat
        /\ Len(t) = (IF Len(q) = TxSlots THEN Len(q) - 1 ELSE Len(q))
        /\ \A k \in 1 .. Len(t) : t[k] = n - Len(t) + k
    <2>. HIDE DEF q
    <2>1. CASE Len(q) = TxSlots
      <3>1. q # << >>
        BY <1>0, <2>1
      <3>2. Tail(q) \in Seq(Nat) /\ Len(Tail(q)) = Len(q) - 1 /\ \A k \in 1 .. Len(q) - 1 : Tail(q)[k] = q[k + 1]
        BY <1>0, <3>1
      <3>3. t = Tail(q)
        BY <2>1
      <3>4. ASSUME NEW k \in 1 .. Len(q) - 1
            PROVE  Tail(q)[k] = n - (Len(q) - 1) + k
        <4>1. k + 1 \in 1 .. Len(q) /\ k \in Int
          BY <1>0
        <4>2. q[k + 1] = n - Len(q) + (k + 1)
          BY <1>0, <4>1
        <4>. QED
          BY <1>a, <3>2, <4>1, <4>2
      <3>. HIDE DEF t
      <3>5. Len(t) = Len(q) - 1 /\ t \in Seq(Nat)
        BY <3>2, <3>3
      <3>6. \A k \in 1 .. Len(t) : t[k] = n - Len(t) + k
        BY ONLY <3>3, <3>4, <3>5
      <3>. QED
        BY <1>0, <2>1, <3>5, <3>6
    <2>2. CASE Len(q) # TxSlots
      <3>1. t = q
        BY <2>2
      <3>2. Len(q) < TxSlots
        BY <1>a, <2>2
      <3>3. \A k \in 1 .. Len(q) : q[k] = n - Len(q) + k
        BY <1>0
      <3>. HIDE DEF t
      <3>. QED
        BY <1>a, <3>1, <3>2, <3>3, <2>2
    <2>. QED
      BY <2>1, <2>2
  <1>. HIDE DEF q, t
  <1>3. /\ r \in Seq(Nat) /\ Len(r) = Len(t) + 1
        /\ \A k \in 1 .. Len(t) + 1 : r[k] = (n + 1) - (Len(t) + 1) + k
    <2>1. n + 1 \in Nat
      BY <1>0
    <2>2. /\ r \in Seq(Nat) /\ Len(r) = Len(t) + 1 /\ r[Len(t) + 1] = n + 1
          /\ \A k \in 1 .. Len(t) : r[k] = t[k]
      BY <1>2, <2>1, AppendProperties
    <2>. HIDE DEF r
    <2>3. ASSUME NEW k \in 1 .. Len(t) + 1
          PROVE  r[k] = (n + 1) - (Len(t) + 1) + k
      <3>1. CASE k = Len(t) + 1
        <4>1. Len(t) \in Nat /\ n \in Nat /\ r[Len(t) + 1] = n + 1
          BY <1>a, <1>2, <2>2
        <4>. QED
          BY ONLY <3>1, <4>1
      <3>2. CASE k # Len(t) + 1
        <4>1. k \in 1 .. Len(t) /\ k \in Int
          BY <1>2, <3>2
        <4>2. r[k] = n - Len(t) + k
          BY <1>2, <2>2, <4>1
        <4>3. Len(t) \in Nat /\ n \in Nat
          BY <1>a, <1>2
        <4>. QED
          BY ONLY <4>1, <4>2, <4>3
      <3>. QED
        BY <3>1, <3>2
    <2>. QED
      BY <2>2, <2>3
  <1>. HIDE DEF r
  <1>4. j \in IoState /\ j.fd = i.fd /\ j.so = i.so /\ j.rxb = i.rxb /\ j.txq = r /\ j.base = i.base
    BY <1>0, <1>3 DEF IoState
  <1>. HIDE DEF j
  <1>5. h \in HostEnd /\ h.room <= PtyRoom
    BY DEF Sending
  <1>6. Sending(j, h, n + 1)
    <2>1. /\ n + 1 \in Nat /\ Len(r) <= TxSlots /\ i.base <= n + 1
          /\ Len(r) = (IF (n + 1) - i.base < TxSlots THEN (n + 1) - i.base ELSE TxSlots)
      <3>1. /\ Len(t) \in Nat /\ Len(t) < TxSlots
            /\ Len(t) = (IF Len(q) = TxSlots THEN Len(q) - 1 ELSE Len(q)) /\ Len(r) = Len(t) + 1
        BY <1>2, <1>3
      <3>. QED
        BY ONLY <1>a, <1>b, <3>1
    <2>2. \A k \in 1 .. Len(r) : r[k] = (n + 1) - Len(r) + k
      BY <1>3
    <2>. QED
      BY <1>0, <1>4, <1>5, <2>1, <2>2 DEF Sending, Full
  <1>. QED
    BY <1>1, <1>4, <1>6

\* mm_uart_io_flush: the host gets a first part of the ring, in order.
LEMMA FlushIs ==
  ASSUME NEW i, NEW h, NEW n, Sending(i, h, n), NEW err \in BOOLEAN
  PROVE  LET f == mm_uart_io_flush(i, h, err)
         IN  /\ Sending(f.io, f.host, n) /\ f.io.fd = i.fd /\ f.io.so = i.so /\ f.io.rxb = i.rxb
             /\ f.host.typed = h.typed /\ f.host.next = h.next
             /\ f.done \in BOOLEAN
  <1>. DEFINE q == i.txq
              c == IF Len(q) < h.room THEN Len(q) ELSE h.room
              rest == SubSeq(q, c + 1, Len(q))
              r == IF err THEN << >> ELSE rest
              l == IF c = 0 THEN h.last ELSE q[c]
              m == h.room - c
              left == IF err THEN Len(q) ELSE c
              e == IF left = 0 THEN i.base ELSE q[left]
              j == [i EXCEPT !.txq = r, !.base = e]
              g == [h EXCEPT !.room = m, !.last = l]
              b == (rest = << >>)
  <1>0. /\ i \in IoState /\ n \in Nat /\ q \in Seq(Nat) /\ Len(q) <= TxSlots /\ TxSlots \in Nat
        /\ h \in HostEnd /\ h.room \in Nat /\ h.room <= PtyRoom /\ PtyRoom \in Nat
        /\ h.last \in Nat /\ h.last <= i.base /\ i.base \in Nat /\ i.base <= n /\ Len(q) \in Nat
        /\ Len(q) = (IF n - i.base < TxSlots THEN n - i.base ELSE TxSlots)
        /\ \A k \in 1 .. Len(q) : q[k] = n - Len(q) + k
    BY SerialBounds DEF Sending, Full, IoState, HostEnd
  <1>a. /\ n \in Nat /\ Len(q) \in Nat /\ TxSlots \in Nat /\ Len(q) <= TxSlots /\ i.base \in Nat /\ i.base <= n
        /\ h.last \in Nat /\ h.last <= i.base
        /\ Len(q) = (IF n - i.base < TxSlots THEN n - i.base ELSE TxSlots)
    BY <1>0
  <1>1. CASE i.fd = "none"
    BY <1>1 DEF mm_uart_io_flush
  <1>2. CASE i.fd # "none"
    <2>1. mm_uart_io_flush(i, h, err) = [io |-> j, host |-> g, done |-> b]
      BY <1>2 DEF mm_uart_io_flush
    <2>. HIDE DEF q
    <2>2. c \in 0 .. Len(q) /\ c <= h.room
      BY <1>0
    <2>. HIDE DEF c
    <2>3. /\ rest \in Seq(Nat) /\ Len(rest) = Len(q) - c
          /\ \A k \in 1 .. Len(q) - c : rest[k] = q[c + k]
      <3>1. q \in Seq(Nat) /\ Len(q) \in Nat
        BY <1>0
      <3>2. c + 1 \in Int /\ Len(q) \in Int /\ \A x \in c + 1 .. Len(q) : q[x] \in Nat
        BY <2>2, <3>1, ElementOfSeq
      <3>3. /\ rest \in Seq(Nat)
            /\ Len(rest) = IF c + 1 <= Len(q) THEN Len(q) - (c + 1) + 1 ELSE 0
            /\ \A k \in 1 .. Len(q) - (c + 1) + 1 : rest[k] = q[c + 1 + k - 1]
        BY ONLY <3>2, SubSeqProperties DEF rest
      <3>. HIDE DEF rest
      <3>4. Len(q) - (c + 1) + 1 = Len(q) - c /\ Len(rest) = Len(q) - c
        BY ONLY <2>2, <3>1, <3>3
      <3>5. ASSUME NEW k \in 1 .. Len(q) - c
            PROVE  rest[k] = q[c + k]
        <4>1. c + 1 + k - 1 = c + k
          BY ONLY <2>2, <3>1
        <4>. QED
          BY ONLY <3>3, <3>4, <4>1
      <3>. QED
        BY <3>3, <3>4, <3>5
    <2>. HIDE DEF rest
    <2>4. left \in c .. Len(q) /\ (~err => left = c) /\ (err => left = Len(q))
      BY <1>0, <2>2
    <2>. HIDE DEF left
    <2>a. m \in Nat /\ m <= PtyRoom
      BY <1>0, <2>2
    <2>b. /\ e \in Nat /\ e <= n /\ l \in Nat /\ l <= e
          /\ Len(q) - left = (IF n - e < TxSlots THEN n - e ELSE TxSlots)
      <3>1. left # 0 => q[left] = n - Len(q) + left
        BY <1>0, <2>2, <2>4
      <3>2. c # 0 => q[c] = n - Len(q) + c
        BY <1>0, <2>2
      <3>3. CASE left = 0
        <4>1. c = 0 /\ e = i.base /\ l = h.last
          BY <1>0, <2>2, <2>4, <3>3
        <4>. HIDE DEF e, l
        <4>. QED
          BY <1>0, <3>3, <4>1
      <3>4. CASE left # 0
        <4>1. e = n - Len(q) + left
          BY <3>1, <3>4
        <4>2. l = IF c = 0 THEN h.last ELSE n - Len(q) + c
          BY <3>2
        <4>. HIDE DEF e, l
        <4>3. /\ c \in 0 .. Len(q) /\ left \in c .. Len(q)
          BY <2>2, <2>4
        <4>. QED
          <5>1. i.base <= n - Len(q) /\ n - Len(q) \in Nat
            BY ONLY <1>a
          <5>2. e \in Nat /\ e <= n /\ l \in Nat /\ l <= e
            <6>1. c \in Nat /\ left \in Nat /\ c <= left /\ left <= Len(q)
              BY ONLY <1>a, <4>3
            <6>2. e \in Nat /\ e <= n /\ n - Len(q) + c <= e /\ n - Len(q) <= e
              BY ONLY <1>a, <4>1, <5>1, <6>1
            <6>3. n - Len(q) + c \in Nat /\ h.last <= n - Len(q)
              BY ONLY <1>a, <5>1, <6>1
            <6>4. h.last <= e /\ h.last \in Nat
              BY ONLY <1>a, <5>1, <6>2, <6>3
            <6>. QED
              BY ONLY <4>2, <6>2, <6>3, <6>4
          <5>3. n - e = Len(q) - left /\ Len(q) - left < TxSlots
            BY ONLY <1>a, <3>4, <4>1, <4>3
          <5>. QED
            BY ONLY <5>2, <5>3
      <3>. QED
        BY <3>3, <3>4
    <2>. HIDE DEF e
    <2>. HIDE DEF m, l
    <2>5. /\ r \in Seq(Nat) /\ Len(r) = Len(q) - left
          /\ \A k \in 1 .. Len(r) : r[k] = n - Len(r) + k
      <3>1. CASE err
        <4>1. r = << >> /\ Len(r) = 0
          BY <3>1
        <4>. HIDE DEF r
        <4>2. r \in Seq(Nat)
          BY <4>1, EmptySeq
        <4>3. \A k \in 1 .. Len(r) : r[k] = n - Len(r) + k
          BY ONLY <4>1
        <4>4. Len(r) = Len(q) - left
          BY <1>0, <2>4, <3>1, <4>1
        <4>. QED
          BY <4>2, <4>3, <4>4
      <3>2. CASE ~err
        <4>1. r = rest
          BY <3>2
        <4>2. ASSUME NEW k \in 1 .. Len(q) - c
              PROVE  rest[k] = n - (Len(q) - c) + k
          <5>1. c + k \in 1 .. Len(q) /\ k \in Int
            BY <1>0, <2>2
          <5>2. q[c + k] = n - Len(q) + (c + k)
            BY <1>0, <5>1
          <5>. QED
            BY <1>0, <2>2, <2>3, <5>1, <5>2
        <4>. HIDE DEF r
        <4>3. Len(r) = Len(q) - c /\ r \in Seq(Nat)
          BY <2>3, <4>1
        <4>4. \A k \in 1 .. Len(r) : r[k] = n - Len(r) + k
          BY ONLY <4>1, <4>2, <4>3
        <4>. QED
          BY <2>4, <3>2, <4>3, <4>4
      <3>. QED
        BY <3>1, <3>2
    <2>. HIDE DEF r
    <2>6. j \in IoState /\ j.fd = i.fd /\ j.so = i.so /\ j.rxb = i.rxb /\ j.txq = r /\ j.base = e
      BY <1>0, <2>5, <2>b DEF IoState
    <2>7. g \in HostEnd /\ g.typed = h.typed /\ g.next = h.next /\ g.room = m /\ g.last = l
      BY <1>0, <2>a, <2>b DEF HostEnd
    <2>8. b \in BOOLEAN
      OBVIOUS
    <2>. HIDE DEF j, g, b
    <2>9. Sending(j, g, n)
      <3>1. Full(j, n) /\ Len(r) <= TxSlots
        <4>1. Len(r) = Len(q) - left /\ left \in 0 .. Len(q) /\ j.base = e /\ j.txq = r
          BY <2>2, <2>4, <2>5, <2>6
        <4>. QED
          <5>1. j.base <= n /\ Len(j.txq) = (IF n - j.base < TxSlots THEN n - j.base ELSE TxSlots)
            BY <2>b, <4>1
          <5>2. Len(r) <= TxSlots
            BY ONLY <1>a, <4>1
          <5>. QED
            BY <5>1, <5>2 DEF Full
      <3>. QED
        BY <1>0, <2>2, <2>5, <2>6, <2>7, <2>a, <2>b, <3>1 DEF Sending
    <2>. QED
      BY <2>1, <2>6, <2>7, <2>8, <2>9
  <1>. QED
    BY <1>1, <1>2

\* mm_uart_io_poll: the byte that it takes is the next one of the host.
LEMMA PollIs ==
  ASSUME NEW i, NEW h, NEW n, NEW l, NEW g, Port(i, h, n, l, g), NEW err \in BOOLEAN
  PROVE  LET p == mm_uart_io_poll(i, h, err)
         IN  /\ Port(p.io, p.host, n, l, g) /\ p.io.fd = i.fd /\ p.host.typed = h.typed
             /\ p.new \in BOOLEAN
  <1>. DEFINE f == mm_uart_io_flush(i, h, err)
              w == i.rxb = 0 /\ f.host.next <= h.typed
              j == [f.io EXCEPT !.rxb = h.next]
              k == [f.host EXCEPT !.next = f.host.next + 1]
  <1>1. CASE i.fd = "none" \/ i.so
    BY <1>1 DEF mm_uart_io_poll
  <1>2. CASE ~(i.fd = "none" \/ i.so)
    <2>1. mm_uart_io_poll(i, h, err) = [io |-> IF w THEN j ELSE f.io, host |-> IF w THEN k ELSE f.host, new |-> w]
      BY <1>2 DEF mm_uart_io_poll
    <2>2. /\ Sending(f.io, f.host, n) /\ f.io.fd = i.fd /\ f.io.so = i.so /\ f.io.rxb = i.rxb
          /\ f.host.typed = h.typed /\ f.host.next = h.next
      BY FlushIs DEF Port
    <2>. HIDE DEF f
    <2>3. /\ f.io \in IoState /\ f.host \in HostEnd /\ Receiving(f.io, f.host, l, g)
      BY <2>2 DEF Port, Receiving, Sending
    <2>4. CASE ~w
      <3>1. mm_uart_io_poll(i, h, err) = [io |-> f.io, host |-> f.host, new |-> FALSE]
        BY <2>1, <2>4
      <3>. QED
        BY <2>2, <2>3, <3>1 DEF Port
    <2>5. CASE w
      <3>1. mm_uart_io_poll(i, h, err) = [io |-> j, host |-> k, new |-> TRUE]
        BY <2>1, <2>5
      <3>2. h.next \in Nat /\ h.typed \in Nat /\ h.next <= h.typed
        BY <2>2, <2>5 DEF Port, Receiving, HostEnd
      <3>3. /\ j \in IoState /\ j.fd = i.fd /\ j.so = i.so /\ j.rxb = h.next /\ j.txq = f.io.txq
            /\ j.base = f.io.base
        BY <2>2, <2>3, <3>2 DEF IoState
      <3>4. /\ k \in HostEnd /\ k.typed = h.typed /\ k.next = h.next + 1
            /\ k.room = f.host.room /\ k.last = f.host.last
        BY <2>2, <2>3, <3>2 DEF HostEnd
      <3>. HIDE DEF j, k
      <3>5. Sending(j, k, n)
        BY <2>2, <3>3, <3>4 DEF Sending, Full
      <3>6. l \in 0 .. h.typed /\ g \in 0 .. h.typed /\ h.next = Later(l, g) + 1
        BY <2>5 DEF Port, Receiving
      <3>7. i.fd = "pty" /\ i.so = FALSE
        BY <3>2, <1>2 DEF Port, Receiving, IoState
      <3>8. Later(l, g) \in Nat
        BY <3>2, <3>6 DEF Later
      <3>9. Receiving(j, k, l, g)
        BY <3>2, <3>3, <3>4, <3>6, <3>7, <3>8 DEF Receiving
      <3>. QED
        BY <3>1, <3>3, <3>4, <3>5, <3>9 DEF Port
    <2>. QED
      BY <2>4, <2>5
  <1>. QED
    BY <1>1, <1>2

\* mm_uart_io_read gives software the byte held, which is the one it waits for.
LEMMA ReadIs ==
  ASSUME NEW i, NEW h, NEW n, NEW g, Port(i, h, n, lastRx, g)
  PROVE  /\ Port(mm_uart_io_read(i), h, n, TakeRx(i), g) /\ mm_uart_io_read(i).fd = i.fd
         /\ TakeRx(i) # lastRx => i.rxb # 0 /\ TakeRx(i) = Later(lastRx, g) + 1
  <1>. DEFINE j == [i EXCEPT !.rxb = 0]
  <1>0. i \in IoState /\ h \in HostEnd /\ i.so \in BOOLEAN
    BY DEF Port, Sending, IoState
  <1>1. CASE i.rxb = 0
    <2>1. TakeRx(i) = lastRx /\ j = i
      BY <1>0, <1>1 DEF TakeRx, IoState
    <2>2. mm_uart_io_read(i) = i
      BY <2>1 DEF mm_uart_io_read
    <2>. QED
      BY <2>1, <2>2
  <1>2. CASE i.rxb # 0
    <2>1. ~i.so /\ i.fd = "pty" /\ i.rxb = Later(lastRx, g) + 1 /\ h.next = Later(lastRx, g) + 2
      BY <1>2 DEF Port, Receiving
    <2>2. mm_uart_io_read(i) = j /\ TakeRx(i) = i.rxb
      BY <1>2, <2>1 DEF mm_uart_io_read, TakeRx
    <2>3. j \in IoState /\ j.fd = i.fd /\ j.so = i.so /\ j.rxb = 0 /\ j.txq = i.txq /\ j.base = i.base
      BY <1>0 DEF IoState
    <2>. HIDE DEF j
    <2>4. Sending(j, h, n)
      BY <2>3 DEF Port, Sending, Full
    <2>5. /\ lastRx \in 0 .. h.typed /\ g \in 0 .. h.typed /\ h.typed \in Nat /\ h.next <= h.typed + 1
      BY <1>0 DEF Port, Receiving, HostEnd
    <2>6. Later(lastRx, g) \in Nat /\ g <= Later(lastRx, g)
      BY <2>5 DEF Later
    <2>7. i.rxb \in 0 .. h.typed /\ Later(i.rxb, g) = i.rxb
      BY <2>1, <2>5, <2>6 DEF Later
    <2>8. Receiving(j, h, i.rxb, g)
      BY <1>0, <2>1, <2>3, <2>5, <2>6, <2>7 DEF Receiving
    <2>. QED
      BY <1>2, <2>1, <2>2, <2>3, <2>4, <2>8 DEF Port
  <1>. QED
    BY <1>1, <1>2

\* A port that is closed or starts again: what was typed and not read is gone.
LEMMA HangUpIs ==
  ASSUME NEW i, NEW h, NEW n, NEW l, Port(i, h, n, l, rxGone),
         NEW j \in IoState, j.txq = << >>, j.rxb = 0, j.base = n, j.so => uartStdout /\ j.fd = "stdout"
  PROVE  Port(j, HostHungUp(i, h), n, l, GoneWith(i, h)) /\ HostHungUp(i, h).typed = h.typed
  <1>. DEFINE k == [h EXCEPT !.next = h.typed + 1]
  <1>0. /\ h \in HostEnd /\ h.typed \in Nat /\ h.next \in Nat /\ h.room <= PtyRoom /\ h.last \in Nat
        /\ n \in Nat /\ h.last <= i.base /\ i.base \in Nat /\ i.base <= n /\ TxSlots \in Nat \ {0}
        /\ l \in 0 .. h.typed /\ rxGone \in 0 .. h.typed /\ h.next <= h.typed + 1
    BY SerialBounds DEF Port, Sending, Receiving, Full, HostEnd, IoState
  <1>1. h.last <= j.base /\ Len(j.txq) = 0 /\ Full(j, n)
    BY <1>0 DEF Full
  <1>2. \A x \in 1 .. Len(j.txq) : j.txq[x] = n - Len(j.txq) + x
    BY ONLY <1>1
  <1>3. CASE i.fd = "pty"
    <2>1. HostHungUp(i, h) = k
      BY <1>3 DEF HostHungUp
    <2>2. /\ k \in HostEnd /\ k.typed = h.typed /\ k.next = h.typed + 1
          /\ k.room = h.room /\ k.last = h.last
      BY <1>0 DEF HostEnd
    <2>. HIDE DEF k
    <2>3. Sending(j, k, n)
      BY <1>0, <1>1, <1>2, <2>2 DEF Sending
    <2>4. GoneWith(i, h) \in 0 .. h.typed /\ Later(l, GoneWith(i, h)) = h.typed
      BY <1>0, <1>3 DEF GoneWith, Later
    <2>5. Receiving(j, k, l, GoneWith(i, h))
      BY <1>0, <2>2, <2>4 DEF Receiving
    <2>. QED
      BY <2>1, <2>2, <2>3, <2>5 DEF Port
  <1>4. CASE i.fd # "pty"
    <2>1. HostHungUp(i, h) = h /\ GoneWith(i, h) = rxGone
      BY <1>4 DEF HostHungUp, GoneWith
    <2>2. i.rxb = 0 /\ ~(h.next <= h.typed) /\ h.next = Later(l, rxGone) + 1
      BY <1>4 DEF Port, Receiving
    <2>3. Sending(j, h, n)
      BY <1>0, <1>1, <1>2 DEF Sending
    <2>4. Receiving(j, h, l, rxGone)
      BY <1>0, <2>2 DEF Receiving
    <2>. QED
      BY <2>1, <2>3, <2>4 DEF Port
  <1>. QED
    BY <1>3, <1>4

\* mm_uart_io_open, of a port that is not a pseudo terminal yet.
LEMMA OpenIs ==
  ASSUME NEW i, NEW h, NEW n, NEW l, NEW g, Port(i, h, n, l, g), i.fd # "pty", NEW ok \in BOOLEAN
  PROVE  Port(mm_uart_io_open(i, ok), h, n, l, g)
  <1>. DEFINE fd == IF uartStdout THEN "stdout" ELSE IF ok THEN "pty" ELSE "none"
              so == uartStdout \/ i.so
              j == [i EXCEPT !.fd = fd, !.so = so]
  <1>0. i \in IoState /\ i.so \in BOOLEAN /\ (i.so => uartStdout)
    BY DEF Port, Sending, Receiving, IoState
  <1>1. mm_uart_io_open(i, ok) = j
    <2>1. CASE uartStdout
      BY <1>0, <2>1 DEF mm_uart_io_open, IoState
    <2>2. CASE ~uartStdout
      <3>1. so = i.so
        BY <1>0, <2>2
      <3>. QED
        BY <1>0, <2>2, <3>1 DEF mm_uart_io_open, IoState
    <2>. QED
      BY <2>1, <2>2
  <1>2. fd \in Fds /\ so \in BOOLEAN /\ (so => uartStdout /\ fd = "stdout")
    BY <1>0 DEF Fds
  <1>. HIDE DEF fd, so
  <1>3. j \in IoState /\ j.fd = fd /\ j.so = so /\ j.rxb = i.rxb /\ j.txq = i.txq /\ j.base = i.base
    BY <1>0, <1>2 DEF IoState
  <1>. HIDE DEF j
  <1>4. i.rxb = 0 /\ ~(h.next <= h.typed)
    BY DEF Port, Receiving
  <1>5. Sending(j, h, n)
    BY <1>3 DEF Port, Sending, Full
  <1>6. Receiving(j, h, l, g)
    BY <1>2, <1>3, <1>4 DEF Port, Receiving
  <1>. QED
    BY <1>1, <1>5, <1>6 DEF Port

\* mm_uart_io_init, memset and mm_uart_io_close leave an empty port.
LEMMA EmptyPort ==
  ASSUME sent \in Nat
  PROVE  /\ Zeroed \in IoState /\ Zeroed.txq = << >> /\ Zeroed.rxb = 0 /\ Zeroed.so = FALSE
         /\ Zeroed.base = sent /\ mm_uart_io_init.base = sent
         /\ mm_uart_io_init \in IoState /\ mm_uart_io_init.txq = << >> /\ mm_uart_io_init.rxb = 0
         /\ mm_uart_io_init.so = FALSE /\ mm_uart_io_init.fd = "none" /\ Zeroed.fd = "stdin"
  BY EmptySeq DEF Zeroed, mm_uart_io_init, IoState, Fds

\* What the invariant says of each part.
LEMMA UsartParts ==
  ASSUME UsartInv
  PROVE  /\ cpu \in Targets /\ uartStdout \in BOOLEAN /\ ready \in BOOLEAN /\ booted \in BOOLEAN
         /\ uirq \in BOOLEAN /\ dev \in UartDev /\ Port(io, host, sent, lastRx, rxGone)
         /\ io \in IoState /\ host \in HostEnd /\ host.typed \in Nat /\ sent \in Nat
         /\ MaxSent[cpu] \in Nat /\ MaxTyped[cpu] \in Nat
         /\ sent <= MaxSent[cpu] /\ host.typed <= MaxTyped[cpu]
  <1>1. Port(io, host, sent, lastRx, rxGone) /\ cpu \in Targets
    BY DEF UsartInv
  <1>2. io \in IoState /\ host \in HostEnd /\ sent \in Nat /\ host.typed \in Nat
    BY <1>1 DEF Port, Sending, HostEnd
  <1>3. uartStdout \in BOOLEAN /\ ready \in BOOLEAN /\ booted \in BOOLEAN /\ uirq \in BOOLEAN
    BY DEF UsartInv
  <1>. QED
    BY <1>1, <1>2, <1>3, SerialBounds DEF UsartInv

\* ensure_enabled: the port is a pseudo terminal only while the device is on.
LEMMA EnsureIs ==
  ASSUME UsartInv, cpu \in Stm32, NEW ok \in BOOLEAN
  PROVE  LET e == ensure_enabled(ok)
         IN  /\ Port(e.io, e.host, sent, lastRx, e.gone)
             /\ e.host.typed = host.typed /\ e.dev \in UartDev
             /\ e.io.fd = "pty" => e.dev.on
             /\ e.gone = rxGone \/ e.io.rxb = 0
  <1>. DEFINE ue == dev.ue /\ dev.clk
              e == ensure_enabled(ok)
  <1>0. Port(io, host, sent, lastRx, rxGone) /\ dev \in UartDev /\ dev.on \in BOOLEAN /\ (io.fd = "pty" => dev.on)
    BY DEF UsartInv, UartDev
  <1>1. CASE ue /\ ~dev.on
    <2>. DEFINE i == mm_uart_io_open(io, ok)
                t == dev.txe \/ i.fd # "none"
                d == [dev EXCEPT !.on = TRUE, !.txe = t]
    <2>1. e = [io |-> i, host |-> host, gone |-> rxGone, dev |-> d]
      BY <1>1 DEF ensure_enabled
    <2>2. Port(i, host, sent, lastRx, rxGone)
      BY <1>0, <1>1, OpenIs
    <2>3. t \in BOOLEAN
      OBVIOUS
    <2>. HIDE DEF i, t
    <2>4. d \in UartDev /\ d.on = TRUE
      BY <1>0, <2>3 DEF UartDev
    <2>. HIDE DEF d
    <2>. QED
      BY <2>1, <2>2, <2>4
  <1>2. CASE ~ue /\ dev.on
    <2>. DEFINE j == mm_uart_io_close(io)
                d == [dev EXCEPT !.on = FALSE]
                fd == IF io.so THEN io.fd ELSE "none"
    <2>1. e = [io |-> j, host |-> HostHungUp(io, host), gone |-> GoneWith(io, host), dev |-> d]
      BY <1>2 DEF ensure_enabled
    <2>2. io \in IoState /\ (io.so => uartStdout /\ io.fd = "stdout")
      BY <1>0 DEF Port, Receiving
    <2>3. fd \in Fds /\ fd # "pty" /\ (io.so => uartStdout /\ fd = "stdout")
      BY <2>2 DEF IoState, Fds
    <2>4. j = [io EXCEPT !.fd = fd, !.rxb = 0, !.txq = << >>, !.base = sent]
      BY DEF mm_uart_io_close
    <2>. HIDE DEF fd, j
    <2>5. j \in IoState /\ j.fd = fd /\ j.so = io.so /\ j.txq = << >> /\ j.rxb = 0 /\ j.base = sent
      BY <2>2, <2>3, <2>4, EmptySeq, UsartParts DEF IoState
    <2>6. d \in UartDev
      BY <1>0 DEF UartDev
    <2>. HIDE DEF d
    <2>7. Port(j, HostHungUp(io, host), sent, lastRx, GoneWith(io, host)) /\ HostHungUp(io, host).typed = host.typed
      BY <1>0, <2>3, <2>5, HangUpIs
    <2>. QED
      BY <2>1, <2>3, <2>5, <2>6, <2>7
  <1>3. CASE ~(ue /\ ~dev.on) /\ ~(~ue /\ dev.on)
    <2>1. e = [io |-> io, host |-> host, dev |-> dev, gone |-> rxGone]
      BY <1>3 DEF ensure_enabled
    <2>. QED
      BY <1>0, <2>1
  <1>. QED
    BY <1>1, <1>2, <1>3

\* The parts of the invariant, put together after a step.
LEMMA PortStep ==
  ASSUME UsartInv, UNCHANGED <<cpu, uartStdout>>, Port(io', host', sent', lastRx', rxGone'), dev' \in UartDev,
         ready' \in BOOLEAN, booted' \in BOOLEAN, uirq' \in BOOLEAN,
         sent' <= MaxSent[cpu], host'.typed <= MaxTyped[cpu],
         cpu \in Stm32 /\ io'.fd = "pty" => dev'.on
  PROVE  UsartInv'
  <1>1. Port(io, host, sent, lastRx, rxGone)'
    BY DEF Port, Sending, Receiving
  <1>2. ({uartStdout, ready, booted, uirq} \subseteq BOOLEAN)'
    BY DEF UsartInv
  <1>. QED
    BY <1>1, <1>2 DEF UsartInv

\* usart_read of an STM32.
LEMMA UsartReadKeeps ==
  ASSUME UsartInv, cpu \in Stm32, NEW reg \in Registers, NEW ok \in BOOLEAN, usart_read(reg, ok)
  PROVE  UsartInv' /\ InOrder
  <1>. DEFINE e == ensure_enabled(ok)
  <1>1. /\ Port(e.io, e.host, sent, lastRx, e.gone) /\ e.host.typed = host.typed /\ e.dev \in UartDev
        /\ e.io.fd = "pty" => e.dev.on
        /\ e.gone = rxGone \/ e.io.rxb = 0
    BY EnsureIs
  <1>2. /\ host' = e.host /\ rxGone' = e.gone
        /\ UNCHANGED <<cpu, uartStdout, inst, ready, booted, uirq, sent>>
    BY DEF usart_read
  <1>3. CASE reg = "RDR"
    <2>. DEFINE d == [e.dev EXCEPT !.rxne = FALSE, !.wiped = FALSE]
    <2>1. io' = mm_uart_io_read(e.io) /\ lastRx' = TakeRx(e.io) /\ dev' = d
      BY <1>3 DEF usart_read
    <2>. HIDE DEF e
    <2>2. d \in UartDev /\ d.on = e.dev.on
      BY <1>1 DEF UartDev
    <2>. HIDE DEF d
    <2>3. /\ Port(io', host', sent', lastRx', rxGone') /\ io'.fd = e.io.fd
          /\ lastRx' # lastRx => e.io.rxb # 0 /\ lastRx' = Later(lastRx, e.gone) + 1
      BY <1>1, <1>2, <2>1, ReadIs
    <2>4. UsartInv'
      BY <1>1, <1>2, <2>1, <2>2, <2>3, PortStep, UsartParts
    <2>. QED
      BY <1>1, <2>3, <2>4 DEF InOrder
  <1>4. CASE reg = "ISR"
    <2>. DEFINE d == [e.dev EXCEPT !.txe = TRUE]
    <2>1. io' = e.io /\ lastRx' = lastRx /\ dev' = d
      BY <1>4 DEF usart_read
    <2>. HIDE DEF e
    <2>2. d \in UartDev /\ d.on = e.dev.on
      BY <1>1 DEF UartDev
    <2>. HIDE DEF d
    <2>3. Port(io', host', sent', lastRx', rxGone')
      BY <1>1, <1>2, <2>1
    <2>4. UsartInv'
      BY <1>1, <1>2, <2>1, <2>2, <2>3, PortStep, UsartParts
    <2>. QED
      BY <2>1, <2>4 DEF InOrder
  <1>5. CASE reg = "CR1"
    <2>1. io' = e.io /\ lastRx' = lastRx /\ dev' = e.dev
      BY <1>5 DEF usart_read
    <2>. HIDE DEF e
    <2>2. Port(io', host', sent', lastRx', rxGone')
      BY <1>1, <1>2, <2>1
    <2>3. UsartInv'
      BY <1>1, <1>2, <2>1, <2>2, PortStep, UsartParts
    <2>. QED
      BY <2>1, <2>3 DEF InOrder
  <1>. QED
    BY <1>3, <1>4, <1>5 DEF Registers

\* A write of TDR.
LEMMA TdrKeeps ==
  ASSUME UsartInv, cpu \in Stm32, NEW ok \in BOOLEAN, NEW err \in BOOLEAN, usart_write_tdr(ok, err)
  PROVE  UsartInv' /\ InOrder
  <1>. DEFINE e == ensure_enabled(ok)
              q == mm_uart_io_queue_tx(e.io, sent + 1)
              f == mm_uart_io_flush(q, e.host, err)
              d == [e.dev EXCEPT !.txe = f.done]
  <1>1. /\ Port(e.io, e.host, sent, lastRx, e.gone) /\ e.host.typed = host.typed /\ e.dev \in UartDev
        /\ e.io.fd = "pty" => e.dev.on
    BY EnsureIs
  <1>2. /\ sent < MaxSent[cpu] /\ rxGone' = e.gone
        /\ UNCHANGED <<cpu, uartStdout, inst, ready, booted, uirq, lastRx>>
    BY DEF usart_write_tdr
  <1>3. CASE e.dev.on
    <2>1. sent' = sent + 1 /\ io' = f.io /\ host' = f.host /\ dev' = d
      BY <1>3 DEF usart_write_tdr
    <2>. HIDE DEF e
    <2>2. Sending(q, e.host, sent + 1) /\ q.fd = e.io.fd /\ q.so = e.io.so /\ q.rxb = e.io.rxb
      BY <1>1, QueueIs DEF Port
    <2>. HIDE DEF q
    <2>3. /\ Sending(f.io, f.host, sent + 1) /\ f.io.fd = q.fd /\ f.io.so = q.so /\ f.io.rxb = q.rxb
          /\ f.host.typed = e.host.typed /\ f.host.next = e.host.next /\ f.done \in BOOLEAN
      BY <2>2, FlushIs
    <2>. HIDE DEF f
    <2>4. d \in UartDev /\ d.on = e.dev.on
      BY <1>1, <2>3 DEF UartDev
    <2>. HIDE DEF d
    <2>5. Receiving(f.io, f.host, lastRx, e.gone)
      BY <1>1, <2>2, <2>3 DEF Port, Receiving, Sending
    <2>6. Port(io', host', sent', lastRx', rxGone')
      BY <1>2, <2>1, <2>3, <2>5 DEF Port
    <2>7. sent' <= MaxSent[cpu]
      BY <1>2, <2>1, UsartParts
    <2>8. UsartInv'
      BY <1>1, <1>2, <2>1, <2>2, <2>3, <2>4, <2>6, <2>7, PortStep, UsartParts
    <2>. QED
      BY <1>2, <2>8 DEF InOrder
  <1>4. CASE ~e.dev.on
    <2>1. sent' = sent /\ io' = e.io /\ host' = e.host /\ dev' = e.dev
      BY <1>4 DEF usart_write_tdr
    <2>. HIDE DEF e
    <2>2. Port(io', host', sent', lastRx', rxGone')
      BY <1>1, <1>2, <2>1
    <2>3. UsartInv'
      BY <1>1, <1>2, <2>1, <2>2, PortStep, UsartParts
    <2>. QED
      BY <1>2, <2>3 DEF InOrder
  <1>. QED
    BY <1>3, <1>4

\* The poll of an STM32.
LEMMA PollInstanceKeeps ==
  ASSUME UsartInv, cpu \in Stm32, NEW ok \in BOOLEAN, NEW err \in BOOLEAN, poll_instance(ok, err)
  PROVE  UsartInv' /\ InOrder
  <1>. DEFINE e == ensure_enabled(ok)
              p == mm_uart_io_poll(e.io, e.host, err)
              rx == e.dev.rxne \/ p.new
              tx == e.dev.txe \/ p.io.txq = << >>
              wi == e.dev.wiped /\ ~p.new
              d == [e.dev EXCEPT !.rxne = rx, !.txe = tx, !.wiped = wi]
  <1>1. /\ Port(e.io, e.host, sent, lastRx, e.gone) /\ e.host.typed = host.typed /\ e.dev \in UartDev
        /\ e.io.fd = "pty" => e.dev.on
    BY EnsureIs
  <1>2. rxGone' = e.gone /\ UNCHANGED <<cpu, uartStdout, inst, ready, booted, sent, lastRx>>
    BY DEF poll_instance
  <1>3. CASE e.dev.on
    <2>0. uirq' \in BOOLEAN
      BY <1>3 DEF poll_instance
    <2>1. io' = p.io /\ host' = p.host /\ dev' = d
      BY <1>3 DEF poll_instance
    <2>. HIDE DEF e
    <2>2. Port(p.io, p.host, sent, lastRx, e.gone) /\ p.io.fd = e.io.fd /\ p.host.typed = e.host.typed
      <3>. DEFINE i == e.io
                  h == e.host
                  g == e.gone
      <3>1. Port(i, h, sent, lastRx, g) /\ p = mm_uart_io_poll(i, h, err)
        BY <1>1
      <3>. HIDE DEF i, h, g, p
      <3>2. LET t == mm_uart_io_poll(i, h, err)
            IN  Port(t.io, t.host, sent, lastRx, g) /\ t.io.fd = i.fd /\ t.host.typed = h.typed
        <4>1. err \in BOOLEAN
          OBVIOUS
        <4>2. Port(i, h, sent, lastRx, g)
          BY <3>1
        <4>. QED
          BY ONLY <4>1, <4>2, PollIs
      <3>. QED
        BY <3>1, <3>2 DEF i, h, g
    <2>3. rx \in BOOLEAN /\ tx \in BOOLEAN /\ wi \in BOOLEAN
      OBVIOUS
    <2>. HIDE DEF p, rx, tx, wi
    <2>4. d \in UartDev /\ d.on = e.dev.on
      BY <1>1, <2>3 DEF UartDev
    <2>. HIDE DEF d
    <2>5. Port(io', host', sent', lastRx', rxGone')
      BY <1>2, <2>1, <2>2
    <2>6. UsartInv'
      BY <1>1, <1>2, <2>0, <2>1, <2>2, <2>4, <2>5, PortStep, UsartParts
    <2>. QED
      BY <1>2, <2>6 DEF InOrder
  <1>4. CASE ~e.dev.on
    <2>1. io' = e.io /\ host' = e.host /\ dev' = e.dev /\ uirq' = uirq
      BY <1>4 DEF poll_instance
    <2>. HIDE DEF e
    <2>2. Port(io', host', sent', lastRx', rxGone')
      BY <1>1, <1>2, <2>1
    <2>3. UsartInv'
      BY <1>1, <1>2, <2>1, <2>2, PortStep, UsartParts
    <2>. QED
      BY <1>2, <2>3 DEF InOrder
  <1>. QED
    BY <1>3, <1>4

\* A step of the device's registers only.
LEMMA DevKeeps ==
  ASSUME UsartInv, UNCHANGED <<cpu, uartStdout, ready, booted, io, host, sent, lastRx, rxGone>>,
         dev' \in UartDev, uirq' \in BOOLEAN, cpu \in Stm32 => dev'.on = dev.on
  PROVE  UsartInv' /\ InOrder
  <1>1. Port(io', host', sent', lastRx', rxGone')
    BY UsartParts
  <1>2. cpu \in Stm32 /\ io'.fd = "pty" => dev'.on
    BY DEF UsartInv
  <1>. QED
    BY <1>1, <1>2, PortStep, UsartParts DEF InOrder

\* The LPUART of the MCX W71.
LEMMA McxKeeps ==
  ASSUME UsartInv, cpu = "mcxw71c", NEW err \in BOOLEAN,
         mcxw71c_usart_read \/ mcxw71c_usart_write(err) \/ mcxw71c_usart_poll(err)
  PROVE  UsartInv' /\ InOrder
  <1>0. cpu \notin Stm32
    BY DEF Stm32
  <1>1. CASE mcxw71c_usart_read
    <2>1. /\ io' = mm_uart_io_read(io) /\ lastRx' = TakeRx(io) /\ dev' = [dev EXCEPT !.rxne = FALSE]
          /\ UNCHANGED <<cpu, uartStdout, inst, ready, booted, uirq, host, sent, rxGone>>
      BY <1>1 DEF mcxw71c_usart_read
    <2>2. dev' \in UartDev
      BY <2>1, UsartParts DEF UartDev
    <2>3. Port(io', host', sent', lastRx', rxGone') /\ InOrder
      BY <2>1, ReadIs, UsartParts DEF InOrder
    <2>. QED
      BY <1>0, <2>1, <2>2, <2>3, PortStep, UsartParts
  <1>2. CASE mcxw71c_usart_poll(err)
    <2>. DEFINE p == mm_uart_io_poll(io, host, err)
                tx == dev.txe \/ p.io.txq = << >>
    <2>1. /\ io' = p.io /\ host' = p.host
          /\ dev' = IF p.new THEN [dev EXCEPT !.rxne = TRUE, !.txe = tx] ELSE dev
          /\ UNCHANGED <<cpu, uartStdout, inst, ready, booted, uirq, sent, lastRx, rxGone>>
      BY <1>2 DEF mcxw71c_usart_poll
    <2>2. Port(p.io, p.host, sent, lastRx, rxGone) /\ p.host.typed = host.typed
      BY PollIs, UsartParts
    <2>3. tx \in BOOLEAN
      OBVIOUS
    <2>. HIDE DEF p, tx
    <2>4. dev' \in UartDev
      BY <2>1, <2>3, UsartParts DEF UartDev
    <2>5. Port(io', host', sent', lastRx', rxGone')
      BY <2>1, <2>2
    <2>. QED
      BY <1>0, <2>1, <2>2, <2>4, <2>5, PortStep, UsartParts DEF InOrder
  <1>3. CASE mcxw71c_usart_write(err)
    <2>0. UNCHANGED <<cpu, uartStdout, inst, ready, booted, uirq, lastRx, rxGone>>
      BY <1>3 DEF mcxw71c_usart_write
    <2>1. ASSUME sent < MaxSent[cpu], sent' = sent + 1, dev' = [dev EXCEPT !.txe = TRUE],
                 LET f == mm_uart_io_flush(mm_uart_io_queue_tx(io, sent + 1), host, err)
                 IN  io' = f.io /\ host' = f.host
          PROVE  UsartInv' /\ InOrder
      <3>. DEFINE q == mm_uart_io_queue_tx(io, sent + 1)
                  f == mm_uart_io_flush(q, host, err)
      <3>1. io' = f.io /\ host' = f.host
        BY <2>1
      <3>2. Sending(q, host, sent + 1) /\ q.fd = io.fd /\ q.so = io.so /\ q.rxb = io.rxb
        BY QueueIs, UsartParts DEF Port
      <3>. HIDE DEF q
      <3>3. /\ Sending(f.io, f.host, sent + 1) /\ f.io.fd = q.fd /\ f.io.so = q.so /\ f.io.rxb = q.rxb
            /\ f.host.typed = host.typed /\ f.host.next = host.next
        BY <3>2, FlushIs
      <3>. HIDE DEF f
      <3>4. Receiving(f.io, f.host, lastRx, rxGone)
        BY <3>2, <3>3, UsartParts DEF Port, Receiving, Sending
      <3>5. Port(io', host', sent', lastRx', rxGone')
        BY <2>0, <2>1, <3>1, <3>3, <3>4 DEF Port
      <3>6. sent' <= MaxSent[cpu]
        BY <2>1, UsartParts
      <3>7. dev' \in UartDev
        BY <2>1, UsartParts DEF UartDev
      <3>. QED
        BY <1>0, <2>0, <3>1, <3>3, <3>5, <3>6, <3>7, PortStep, UsartParts DEF InOrder
    <2>2. ASSUME NEW d \in UartDev, dev' = d, UNCHANGED <<io, host, sent>>
          PROVE  UsartInv' /\ InOrder
      BY <1>0, <2>0, <2>2, DevKeeps, UsartParts
    <2>3. [dev EXCEPT !.ue = ~dev.ue] \in UartDev
      BY UsartParts DEF UartDev
    <2>4. \A rdrf, tdre \in BOOLEAN : [dev EXCEPT !.rxne = rdrf, !.txe = tdre] \in UartDev
      BY UsartParts DEF UartDev
    <2>. QED
      BY <1>3, <2>1, <2>2, <2>3, <2>4 DEF mcxw71c_usart_write
  <1>. QED
    BY <1>1, <1>2, <1>3

\* serial_uarte_try_rx: EasyDMA takes the byte held.
LEMMA TryRxIs ==
  ASSUME NEW i, NEW h, Port(i, h, sent, lastRx, rxGone), NEW d \in UartDev
  PROVE  LET r == serial_uarte_try_rx(i, d)
         IN  /\ Port(r.io, h, sent, r.rx, rxGone) /\ r.dev \in UartDev
             /\ r.rx # lastRx => r.rx = Later(lastRx, rxGone) + 1
  <1>. DEFINE go == d.on /\ d.clk /\ d.ue
              take == go /\ i.rxb # 0 /\ d.got < d.want
              got == IF take THEN d.got + 1 ELSE d.got
              full == go /\ got >= d.want /\ d.want # 0
              a == d.rxne \/ take
              b == d.on /\ ~full
              e == [d EXCEPT !.got = got, !.rxne = a, !.on = b]
              r == serial_uarte_try_rx(i, d)
  <1>1. /\ r.io = IF take THEN mm_uart_io_read(i) ELSE i
        /\ r.rx = IF take THEN TakeRx(i) ELSE lastRx
        /\ r.dev = e
    BY DEF serial_uarte_try_rx
  <1>2. got \in Nat /\ a \in BOOLEAN /\ b \in BOOLEAN
    <2>1. a \in BOOLEAN /\ b \in BOOLEAN
      OBVIOUS
    <2>2. d.got \in Nat
      BY DEF UartDev
    <2>. QED
      BY <2>1, <2>2
  <1>3. /\ Port(mm_uart_io_read(i), h, sent, TakeRx(i), rxGone)
        /\ TakeRx(i) # lastRx => TakeRx(i) = Later(lastRx, rxGone) + 1
    BY ReadIs
  <1>. HIDE DEF r, take, got, a, b
  <1>4. e \in UartDev
    BY <1>2 DEF UartDev
  <1>. HIDE DEF e
  <1>5. /\ Port(r.io, h, sent, r.rx, rxGone) /\ r.dev \in UartDev
        /\ r.rx # lastRx => r.rx = Later(lastRx, rxGone) + 1
    BY <1>1, <1>3, <1>4
  <1>. QED
    BY <1>5 DEF r

\* The ring after the k bytes of an EasyDMA buffer were queued.
LEMMA QueueManyIs ==
  ASSUME NEW i, NEW h, NEW c, Sending(i, h, c), NEW n \in Nat
  PROVE  LET q[k \in 0 .. n] == IF k = 0 THEN i ELSE mm_uart_io_queue_tx(q[k - 1], c + k)
         IN  Sending(q[n], h, c + n) /\ q[n].fd = i.fd /\ q[n].so = i.so /\ q[n].rxb = i.rxb
  <1>. DEFINE V == [fd : Fds, so : BOOLEAN, txq : Seq(Nat), rxb : Nat, base : Nat]
              Turn(k, b) == mm_uart_io_queue_tx(b, c + k)
              Step(f) == [k \in 0 .. n |-> IF k = 0 THEN i ELSE Turn(k, f[k - 1])]
              q == CHOOSE f : f = Step(f)
  <1>0. i \in V /\ c \in Nat
    BY DEF Sending, IoState
  <1>1. ASSUME NEW k \in 1 .. n, NEW b \in V
        PROVE  Turn(k, b) \in V
    <2>. DEFINE t == IF Len(b.txq) = TxSlots THEN Tail(b.txq) ELSE b.txq
                r == Append(t, c + k)
    <2>1. Turn(k, b) = [b EXCEPT !.txq = r]
      BY DEF mm_uart_io_queue_tx
    <2>2. b.txq \in Seq(Nat) /\ c + k \in Nat /\ TxSlots \in Nat \ {0}
      BY <1>0, SerialBounds
    <2>3. t \in Seq(Nat)
      <3>1. CASE Len(b.txq) = TxSlots
        <4>1. b.txq # << >>
          BY <2>2, <3>1
        <4>2. Tail(b.txq) \in Seq(Nat)
          BY <2>2, <4>1
        <4>. QED
          BY <3>1, <4>2
      <3>2. CASE Len(b.txq) # TxSlots
        BY <2>2, <3>2
      <3>. QED
        BY <3>1, <3>2
    <2>. HIDE DEF t
    <2>4. r \in Seq(Nat)
      BY <2>2, <2>3, AppendProperties
    <2>. HIDE DEF r, Turn
    <2>. QED
      BY <2>1, <2>4
  <1>2. \E f : f = Step(f)
    <2>. DEFINE step == [k \in 1 .. n |-> [b \in V |-> Turn(k, b)]]
    <2>. HIDE DEF V, Turn
    <2>1. step \in StepsOver(n, V)
      BY <1>1 DEF StepsOver
    <2>2. PICK f : Recurs(f, n, V, i, step)
      <3>. HIDE DEF step
      <3>. QED
        BY <1>0, <2>1, RecursiveFunction
    <2>a. f \in [0 .. n -> V] /\ f[0] = i /\ \A k \in 1 .. n : f[k] = step[k][f[k - 1]]
      BY <2>2 DEF Recurs
    <2>3. ASSUME NEW k \in 0 .. n
          PROVE  f[k] = IF k = 0 THEN i ELSE Turn(k, f[k - 1])
      <3>1. CASE k = 0
        BY <2>a, <3>1
      <3>2. CASE k # 0
        <4>1. k \in 1 .. n /\ k - 1 \in 0 .. n
          BY <3>2
        <4>2. f[k - 1] \in V
          BY <2>a, <4>1
        <4>3. f[k] = step[k][f[k - 1]]
          BY <2>a, <4>1
        <4>. QED
          BY <3>2, <4>1, <4>2, <4>3
      <3>. QED
        BY <3>1, <3>2
    <2>4. f = Step(f)
      BY <2>a, <2>3
    <2>. QED
      BY <2>4
  <1>3. q = Step(q)
    <2>. HIDE DEF Step
    <2>. QED
      BY <1>2
  <1>. DEFINE Ok(k) == Sending(q[k], h, c + k) /\ q[k].fd = i.fd /\ q[k].so = i.so /\ q[k].rxb = i.rxb
              S == {k \in 0 .. n : Ok(k)}
  <1>. HIDE DEF q
  <1>4. 0 \in S
    <2>1. q[0] = i /\ c + 0 = c
      BY <1>0, <1>3
    <2>. QED
      BY <2>1
  <1>5. ASSUME NEW k \in 0 .. n - 1, k \in S
        PROVE  k + 1 \in S
    <2>0. Ok(k)
      <3>. HIDE DEF Ok
      <3>. QED
        BY <1>5
    <2>1. k + 1 \in 0 .. n /\ k + 1 # 0 /\ (k + 1) - 1 = k /\ c + k \in Nat /\ c + (k + 1) = (c + k) + 1
      BY <1>0
    <2>. DEFINE b == q[k]
                m == c + k
    <2>2. q[k + 1] = mm_uart_io_queue_tx(b, m + 1)
      BY <1>3, <2>1
    <2>3. Sending(b, h, m) /\ b.fd = i.fd /\ b.so = i.so /\ b.rxb = i.rxb /\ c + (k + 1) = m + 1
      BY <2>0, <2>1
    <2>. HIDE DEF b, m
    <2>4. Sending(q[k + 1], h, m + 1) /\ q[k + 1].fd = b.fd /\ q[k + 1].so = b.so /\ q[k + 1].rxb = b.rxb
      BY <2>2, <2>3, QueueIs
    <2>. QED
      BY <2>1, <2>3, <2>4
  <1>6. Ok(n)
    <2>. HIDE DEF Ok
    <2>1. \A k \in 0 .. n - 1 : k \in S => k + 1 \in S
      BY <1>5
    <2>. HIDE DEF S
    <2>2. 0 .. n \subseteq S
      BY <1>4, <2>1, SegmentInduction
    <2>. QED
      BY <2>2 DEF S
  <1>. QED
    BY <1>6 DEF q

\* The UARTE of the nRF5340.
LEMMA UarteKeeps ==
  ASSUME UsartInv, cpu = "nrf5340", NEW err \in BOOLEAN,
         \/ nrf5340_serial_write_rx \/ nrf5340_serial_write_reg \/ nrf5340_usart_poll(err)
         \/ \E n \in 1 .. MaxSent[cpu] : serial_uarte_start_tx(n, err)
  PROVE  UsartInv' /\ InOrder
  <1>0. cpu \notin Stm32
    BY DEF Stm32
  <1>1. CASE nrf5340_serial_write_rx
    <2>1. PICK d \in {[dev EXCEPT !.on = TRUE, !.got = 0], dev} :
            LET r == serial_uarte_try_rx(io, d)
            IN  io' = r.io /\ dev' = r.dev /\ lastRx' = r.rx /\ uirq' = (uirq \/ (r.irq /\ ready))
      BY <1>1 DEF nrf5340_serial_write_rx
    <2>2. UNCHANGED <<cpu, uartStdout, inst, ready, booted, host, sent, rxGone>>
      BY <1>1 DEF nrf5340_serial_write_rx
    <2>3. d \in UartDev
      <3>1. [dev EXCEPT !.on = TRUE, !.got = 0] \in UartDev
        BY UsartParts DEF UartDev
      <3>. QED
        BY <2>1, <3>1, UsartParts
    <2>. DEFINE r == serial_uarte_try_rx(io, d)
    <2>4. /\ Port(r.io, host, sent, r.rx, rxGone) /\ r.dev \in UartDev
          /\ r.rx # lastRx => r.rx = Later(lastRx, rxGone) + 1
      BY <2>3, TryRxIs, UsartParts
    <2>5. io' = r.io /\ dev' = r.dev /\ lastRx' = r.rx
      BY <2>1
    <2>6. uirq' \in BOOLEAN
      BY <2>1
    <2>. HIDE DEF r
    <2>7. Port(io', host', sent', lastRx', rxGone') /\ InOrder
      BY <2>2, <2>4, <2>5 DEF InOrder
    <2>. QED
      BY <1>0, <2>2, <2>4, <2>5, <2>6, <2>7, PortStep, UsartParts
  <1>2. CASE nrf5340_serial_write_reg
    <2>1. UNCHANGED <<cpu, uartStdout, inst, ready, booted, io, uirq, host, sent, lastRx, rxGone>>
      BY <1>2 DEF nrf5340_serial_write_reg
    <2>2. dev' \in UartDev
      <3>1. dev \in UartDev
        BY UsartParts
      <3>2. [dev EXCEPT !.on = FALSE] \in UartDev
        BY <3>1 DEF UartDev
      <3>3. \A n \in 0 .. 1 : [dev EXCEPT !.want = n] \in UartDev
        BY <3>1 DEF UartDev
      <3>4. [dev EXCEPT !.ue = ~dev.ue] \in UartDev
        BY <3>1 DEF UartDev
      <3>5. [dev EXCEPT !.rxie = ~dev.rxie] \in UartDev
        BY <3>1 DEF UartDev
      <3>6. [dev EXCEPT !.rxne = FALSE, !.txe = FALSE] \in UartDev
        BY <3>1 DEF UartDev
      <3>. QED
        BY <1>2, <3>2, <3>3, <3>4, <3>5, <3>6 DEF nrf5340_serial_write_reg
    <2>. QED
      BY <1>0, <2>1, <2>2, DevKeeps, UsartParts
  <1>3. CASE nrf5340_usart_poll(err)
    <2>. DEFINE p == mm_uart_io_poll(io, host, err)
                r == serial_uarte_try_rx(p.io, dev)
    <2>1. UNCHANGED <<cpu, uartStdout, inst, ready, booted, sent, rxGone>>
      BY <1>3 DEF nrf5340_usart_poll
    <2>2. Port(p.io, p.host, sent, lastRx, rxGone) /\ p.host.typed = host.typed
      BY PollIs, UsartParts
    <2>3. /\ Port(r.io, p.host, sent, r.rx, rxGone) /\ r.dev \in UartDev
          /\ r.rx # lastRx => r.rx = Later(lastRx, rxGone) + 1
      <3>. DEFINE i == p.io
                  h == p.host
      <3>1. Port(i, h, sent, lastRx, rxGone) /\ r = serial_uarte_try_rx(i, dev) /\ dev \in UartDev
        BY <2>2, UsartParts
      <3>. HIDE DEF i, h, r
      <3>2. LET t == serial_uarte_try_rx(i, dev)
            IN  /\ Port(t.io, h, sent, t.rx, rxGone) /\ t.dev \in UartDev
                /\ t.rx # lastRx => t.rx = Later(lastRx, rxGone) + 1
        BY ONLY <3>1, TryRxIs
      <3>. QED
        BY <3>1, <3>2 DEF h
    <2>4. CASE ~ready
      <3>1. UNCHANGED <<io, host, dev, lastRx, uirq>>
        BY <1>3, <2>4 DEF nrf5340_usart_poll
      <3>. QED
        BY <1>0, <2>1, <3>1, DevKeeps, UsartParts
    <2>5. CASE ready /\ p.new
      <3>1. io' = r.io /\ host' = p.host /\ dev' = r.dev /\ lastRx' = r.rx /\ uirq' = (uirq \/ r.irq)
        BY <1>3, <2>5 DEF nrf5340_usart_poll
      <3>2. uirq' \in BOOLEAN
        BY <3>1
      <3>. HIDE DEF r, p
      <3>3. Port(io', host', sent', lastRx', rxGone') /\ InOrder
        BY <2>1, <2>3, <3>1 DEF InOrder
      <3>. QED
        BY <1>0, <2>1, <2>2, <2>3, <3>1, <3>2, <3>3, PortStep, UsartParts
    <2>6. CASE ready /\ ~p.new
      <3>1. io' = p.io /\ host' = p.host /\ UNCHANGED <<dev, lastRx, uirq>>
        BY <1>3, <2>6 DEF nrf5340_usart_poll
      <3>. HIDE DEF r, p
      <3>2. Port(io', host', sent', lastRx', rxGone') /\ InOrder
        BY <2>1, <2>2, <3>1 DEF InOrder
      <3>. QED
        BY <1>0, <2>1, <2>2, <3>1, <3>2, PortStep, UsartParts
    <2>. QED
      BY <2>4, <2>5, <2>6
  <1>4. ASSUME NEW n \in 1 .. MaxSent[cpu], serial_uarte_start_tx(n, err)
        PROVE  UsartInv' /\ InOrder
    <2>. DEFINE q == LET q[k \in 0 .. n] == IF k = 0 THEN io ELSE mm_uart_io_queue_tx(q[k - 1], sent + k)
                     IN  q[n]
                f == mm_uart_io_flush(q, host, err)
    <2>1. /\ sent + n <= MaxSent[cpu] /\ io' = f.io /\ host' = f.host /\ sent' = sent + n
          /\ dev' = [dev EXCEPT !.txe = TRUE]
          /\ UNCHANGED <<cpu, uartStdout, inst, ready, booted, uirq, lastRx, rxGone>>
      BY <1>4 DEF serial_uarte_start_tx
    <2>2. Sending(q, host, sent + n) /\ q.fd = io.fd /\ q.so = io.so /\ q.rxb = io.rxb
      <3>1. Sending(io, host, sent) /\ n \in Nat
        BY UsartParts DEF Port
      <3>. QED
        BY <3>1, QueueManyIs
    <2>. HIDE DEF q
    <2>3. /\ Sending(f.io, f.host, sent + n) /\ f.io.fd = q.fd /\ f.io.so = q.so /\ f.io.rxb = q.rxb
          /\ f.host.typed = host.typed /\ f.host.next = host.next
      BY <2>2, FlushIs
    <2>. HIDE DEF f
    <2>4. Receiving(f.io, f.host, lastRx, rxGone)
      BY <2>2, <2>3, UsartParts DEF Port, Receiving, Sending
    <2>5. Port(io', host', sent', lastRx', rxGone')
      BY <2>1, <2>3, <2>4 DEF Port
    <2>6. dev' \in UartDev
      BY <2>1, UsartParts DEF UartDev
    <2>. QED
      BY <1>0, <2>1, <2>3, <2>5, <2>6, PortStep, UsartParts DEF InOrder
  <1>. QED
    BY <1>1, <1>2, <1>3, <1>4

\* Power-up and every reset: the ports start empty.
LEMMA BootKeeps ==
  ASSUME UsartInv, UsartBoot
  PROVE  UsartInv' /\ InOrder
  <1>. DEFINE h == HostHungUp(io, host)
              g == GoneWith(io, host)
  <1>1. /\ host' = h /\ rxGone' = g /\ dev' = [DevAtReset EXCEPT !.txe = cpu # "nrf5340"]
        /\ uirq' = FALSE /\ booted' = TRUE /\ UNCHANGED <<cpu, uartStdout, inst, sent, lastRx>>
    BY DEF UsartBoot
  <1>2. dev' \in UartDev
    BY <1>1 DEF DevAtReset, UartDev
  <1>3. /\ Port(Zeroed, h, sent, lastRx, g) /\ Port(mm_uart_io_init, h, sent, lastRx, g)
        /\ h.typed = host.typed
    BY HangUpIs, EmptyPort, UsartParts
  <1>. HIDE DEF h, g
  <1>4. ASSUME NEW ok \in BOOLEAN
        PROVE  Port(mm_uart_io_open(mm_uart_io_init, ok), h, sent, lastRx, g)
    BY <1>3, OpenIs, EmptyPort, UsartParts
  <1>5. /\ Port(io', h, sent, lastRx, g) /\ ready' \in BOOLEAN
        /\ cpu \in Stm32 => io' = mm_uart_io_init
    <2>1. CASE stm32l552_usart_init \/ stm32h563_usart_init \/ stm32u585_usart_init
      BY <1>3, <2>1 DEF stm32l552_usart_init, stm32h563_usart_init, stm32u585_usart_init
    <2>2. ASSUME NEW ok \in BOOLEAN, mcxw71c_usart_init(ok)
          PROVE  Port(io', h, sent, lastRx, g) /\ ready' \in BOOLEAN /\ cpu \notin Stm32
      BY <1>4, <2>2 DEF mcxw71c_usart_init, Stm32
    <2>3. ASSUME NEW ok \in BOOLEAN, nrf5340_boot(ok)
          PROVE  Port(io', h, sent, lastRx, g) /\ ready' \in BOOLEAN /\ cpu \notin Stm32
      BY <1>3, <1>4, <2>3 DEF nrf5340_boot, serial_register_all, Stm32
    <2>. QED
      BY <2>1, <2>2, <2>3 DEF UsartBoot
  <1>6. Port(io', host', sent', lastRx', rxGone')
    BY <1>1, <1>5
  <1>7. cpu \in Stm32 => io'.fd # "pty"
    BY <1>5, EmptyPort, UsartParts
  <1>8. uirq' \in BOOLEAN /\ booted' \in BOOLEAN
    BY <1>1
  <1>. QED
    BY <1>1, <1>2, <1>3, <1>5, <1>6, <1>7, <1>8, PortStep, UsartParts DEF InOrder

\* The host types a byte, and makes room by reading one.
LEMMA HostKeeps ==
  ASSUME UsartInv, HostTypes \/ HostReads
  PROVE  UsartInv' /\ InOrder
  <1>1. UNCHANGED <<cpu, uartStdout, inst, ready, booted, io, dev, uirq, sent, lastRx, rxGone>>
    BY DEF HostTypes, HostReads
  <1>2. host \in HostEnd /\ Sending(io, host, sent) /\ Receiving(io, host, lastRx, rxGone)
    BY UsartParts DEF Port
  <1>3. CASE HostTypes
    <2>1. /\ host' = [host EXCEPT !.typed = host.typed + 1] /\ io.fd = "pty"
          /\ host.typed < MaxTyped[cpu]
      BY <1>3 DEF HostTypes
    <2>2. /\ host' \in HostEnd /\ host'.typed = host.typed + 1 /\ host'.next = host.next
          /\ host'.room = host.room /\ host'.last = host.last
      BY <1>2, <2>1 DEF HostEnd
    <2>3. Sending(io, host', sent)
      BY <1>2, <2>2 DEF Sending
    <2>4. host.next \in Nat /\ host.typed \in Nat
      BY <1>2 DEF HostEnd
    <2>5. Receiving(io, host', lastRx, rxGone)
      BY <1>2, <2>1, <2>2, <2>4 DEF Receiving
    <2>6. Port(io', host', sent', lastRx', rxGone')
      BY <1>1, <2>3, <2>5 DEF Port
    <2>7. host'.typed <= MaxTyped[cpu]
      BY <2>1, <2>2, UsartParts
    <2>8. cpu \in Stm32 /\ io'.fd = "pty" => dev'.on
      BY <1>1 DEF UsartInv
    <2>. QED
      BY <1>1, <2>6, <2>7, <2>8, PortStep, UsartParts DEF InOrder
  <1>4. CASE HostReads
    <2>1. host' = [host EXCEPT !.room = host.room + 1] /\ host.room < PtyRoom
      BY <1>4 DEF HostReads
    <2>2. /\ host' \in HostEnd /\ host'.typed = host.typed /\ host'.next = host.next
          /\ host'.room = host.room + 1 /\ host'.last = host.last /\ host.room \in Nat
      BY <1>2, <2>1 DEF HostEnd
    <2>3. Sending(io, host', sent)
      BY <1>2, <2>1, <2>2, SerialBounds DEF Sending
    <2>4. Receiving(io, host', lastRx, rxGone)
      BY <1>2, <2>1, <2>2 DEF Receiving
    <2>5. Port(io', host', sent', lastRx', rxGone')
      BY <1>1, <2>3, <2>4 DEF Port
    <2>6. cpu \in Stm32 /\ io'.fd = "pty" => dev'.on
      BY <1>1 DEF UsartInv
    <2>. QED
      BY <1>1, <2>2, <2>5, <2>6, PortStep, UsartParts DEF InOrder
  <1>. QED
    BY <1>3, <1>4

\* Every step keeps the invariant and the order of the bytes read.
LEMMA UsartStepKeeps ==
  ASSUME UsartInv, UsartNext
  PROVE  UsartInv' /\ InOrder
  <1>1. CASE UsartBoot
    BY <1>1, BootKeeps
  <1>2. CASE HostTypes \/ HostReads
    BY <1>2, HostKeeps
  <1>3. CASE UsartIrqTaken
    <2>1. uirq' \in BOOLEAN /\ UNCHANGED <<cpu, uartStdout, ready, booted, io, dev, host, sent, lastRx, rxGone>>
      BY <1>3 DEF UsartIrqTaken
    <2>. QED
      BY <2>1, DevKeeps, UsartParts
  <1>4. CASE UsartPoll
    <2>1. PICK ok \in BOOLEAN, err \in BOOLEAN :
            \/ cpu \in Stm32 /\ poll_instance(ok, err)
            \/ cpu = "mcxw71c" /\ mcxw71c_usart_poll(err)
            \/ cpu = "nrf5340" /\ nrf5340_usart_poll(err)
      BY <1>4 DEF UsartPoll, stm32l552_usart_poll, stm32h563_usart_poll, stm32u585_usart_poll,
                  mcxw71c_usart_poll, nrf5340_usart_poll, Stm32
    <2>. QED
      BY <2>1, PollInstanceKeeps, McxKeeps, UarteKeeps
  <1>5. CASE UsartSoftware
    <2>1. ASSUME NEW reg \in Registers, NEW ok \in BOOLEAN,
                 \/ stm32l552_usart_read(reg, ok) \/ stm32h563_usart_read(reg, ok)
                 \/ stm32u585_usart_read(reg, ok)
          PROVE  UsartInv' /\ InOrder
      <3>1. cpu \in Stm32 /\ usart_read(reg, ok)
        BY <2>1 DEF stm32l552_usart_read, stm32h563_usart_read, stm32u585_usart_read, Stm32
      <3>. QED
        BY <3>1, UsartReadKeeps
    <2>2. CASE stm32l552_usart_write \/ stm32h563_usart_write \/ stm32u585_usart_write
      <3>1. cpu \in Stm32 /\ usart_write
        BY <2>2 DEF stm32l552_usart_write, stm32h563_usart_write, stm32u585_usart_write, Stm32
      <3>2. ASSUME NEW ok \in BOOLEAN, NEW err \in BOOLEAN, usart_write_tdr(ok, err)
            PROVE  UsartInv' /\ InOrder
        BY <3>1, <3>2, TdrKeeps
      <3>3. ASSUME NEW ue \in BOOLEAN, NEW rxie \in BOOLEAN, NEW txie \in BOOLEAN, usart_write_cr1(ue, rxie, txie)
            PROVE  UsartInv' /\ InOrder
        <4>1. /\ dev' = [dev EXCEPT !.ue = ue, !.rxie = rxie, !.txie = txie]
              /\ UNCHANGED <<cpu, uartStdout, ready, booted, io, uirq, host, sent, lastRx, rxGone>>
          BY <3>3 DEF usart_write_cr1
        <4>2. dev' \in UartDev /\ dev'.on = dev.on
          BY <4>1, UsartParts DEF UartDev
        <4>. QED
          BY <4>1, <4>2, DevKeeps, UsartParts
      <3>4. ASSUME NEW rxne \in BOOLEAN, NEW txe \in BOOLEAN, usart_write_isr(rxne, txe)
            PROVE  UsartInv' /\ InOrder
        <4>. DEFINE wi == io.rxb # 0 /\ ~rxne
        <4>1. /\ dev' = [dev EXCEPT !.rxne = rxne, !.txe = txe, !.wiped = wi]
              /\ UNCHANGED <<cpu, uartStdout, ready, booted, io, uirq, host, sent, lastRx, rxGone>>
          BY <3>4 DEF usart_write_isr
        <4>2. wi \in BOOLEAN
          OBVIOUS
        <4>. HIDE DEF wi
        <4>3. dev' \in UartDev /\ dev'.on = dev.on
          BY <4>1, <4>2, UsartParts DEF UartDev
        <4>. QED
          BY <4>1, <4>3, DevKeeps, UsartParts
      <3>. QED
        BY <3>1, <3>2, <3>3, <3>4 DEF usart_write
    <2>3. CASE mcxw71c_usart_read
      <3>1. cpu = "mcxw71c"
        BY <2>3 DEF mcxw71c_usart_read
      <3>. QED
        BY <2>3, <3>1, McxKeeps
    <2>4. ASSUME NEW err \in BOOLEAN, mcxw71c_usart_write(err)
          PROVE  UsartInv' /\ InOrder
      <3>1. cpu = "mcxw71c"
        BY <2>4 DEF mcxw71c_usart_write
      <3>. QED
        BY <2>4, <3>1, McxKeeps
    <2>5. CASE nrf5340_serial_write_rx \/ nrf5340_serial_write_reg
      <3>1. cpu = "nrf5340"
        BY <2>5 DEF nrf5340_serial_write_rx, nrf5340_serial_write_reg
      <3>. QED
        BY <2>5, <3>1, UarteKeeps
    <2>6. ASSUME NEW err \in BOOLEAN, NEW n \in 1 .. MaxSent[cpu], serial_uarte_start_tx(n, err)
          PROVE  UsartInv' /\ InOrder
      <3>1. cpu = "nrf5340"
        BY <2>6 DEF serial_uarte_start_tx
      <3>. QED
        BY <2>6, <3>1, UarteKeeps
    <2>7. CASE UsartGate
      <3>1. /\ dev' = [dev EXCEPT !.clk = ~dev.clk]
            /\ UNCHANGED <<cpu, uartStdout, ready, booted, io, uirq, host, sent, lastRx, rxGone>>
        BY <2>7 DEF UsartGate
      <3>2. dev' \in UartDev /\ dev'.on = dev.on
        BY <3>1, UsartParts DEF UartDev
      <3>. QED
        BY <3>1, <3>2, DevKeeps, UsartParts
    <2>. QED
      BY <1>5, <2>1, <2>2, <2>3, <2>4, <2>5, <2>6, <2>7 DEF UsartSoftware
  <1>. QED
    BY <1>1, <1>2, <1>3, <1>4, <1>5 DEF UsartNext

\* The serial port starts with nothing sent and nothing typed.
LEMMA UsartInvInit == UsartInit => UsartInv
  <1>. SUFFICES ASSUME UsartInit
                PROVE  UsartInv
    OBVIOUS
  <1>0. PtyRoom \in Nat /\ TxSlots \in Nat
    BY SerialBounds
  <1>1. /\ cpu \in Targets /\ uartStdout \in BOOLEAN /\ ready \in BOOLEAN /\ booted \in BOOLEAN
        /\ uirq \in BOOLEAN /\ io = Zeroed /\ dev = DevAtReset
    BY DEF UsartInit, UsartAtReset, TargetInit
  <1>2. /\ host = [typed |-> 0, next |-> 1, room |-> PtyRoom, last |-> 0]
        /\ sent = 0 /\ lastRx = 0 /\ rxGone = 0
    BY DEF UsartInit, UsartAtReset
  <1>0a. sent \in Nat
    BY <1>2
  <1>3. /\ host \in HostEnd /\ host.typed = 0 /\ host.next = 1 /\ host.room = PtyRoom /\ host.last = 0
    BY <1>0, <1>2 DEF HostEnd
  <1>4. \A k \in 1 .. Len(Zeroed.txq) : Zeroed.txq[k] = 0 - Len(Zeroed.txq) + k
    <2>1. Zeroed.txq = << >>
      BY <1>2, EmptyPort
    <2>. QED
      BY ONLY <2>1
  <1>5. Sending(io, host, sent)
    <2>1. io.base = 0 /\ Len(io.txq) = 0 /\ io \in IoState
      BY <1>1, <1>2, EmptyPort
    <2>2. TxSlots \in Nat \ {0}
      BY SerialBounds
    <2>3. Full(io, sent)
      BY <1>2, <2>1, <2>2 DEF Full
    <2>. QED
      BY <1>0, <1>1, <1>2, <1>3, <1>4, <2>1, <2>3, EmptyPort DEF Sending
  <1>6. Receiving(io, host, lastRx, rxGone)
    <2>1. Later(0, 0) = 0
      BY DEF Later
    <2>. QED
      <3>1. io \in IoState /\ io.rxb = 0 /\ io.so = FALSE
        BY <1>1, <1>0a, EmptyPort
      <3>2. Later(lastRx, rxGone) = 0 /\ lastRx \in 0 .. host.typed /\ rxGone \in 0 .. host.typed
        BY <1>2, <1>3, <2>1
      <3>. QED
        BY <1>3, <3>1, <3>2 DEF Receiving
  <1>7. dev \in UartDev
    BY <1>1 DEF DevAtReset, UartDev
  <1>8. io.fd # "pty"
    BY <1>1, <1>0a, EmptyPort
  <1>9. sent <= MaxSent[cpu] /\ host.typed <= MaxTyped[cpu]
    BY <1>1, <1>2, <1>3, SerialBounds
  <1>. QED
    BY <1>1, <1>5, <1>6, <1>7, <1>8, <1>9 DEF UsartInv, Port

\* Every step keeps the invariant.
LEMMA UsartInvStep == UsartInv /\ [UsartNext]_usartVars => UsartInv'
  <1>1. ASSUME UsartInv, UNCHANGED usartVars
        PROVE  UsartInv'
    <2>1. UNCHANGED <<cpu, uartStdout, ready, booted, io, dev, uirq, host, sent, lastRx, rxGone>>
      BY <1>1 DEF usartVars
    <2>. QED
      BY <1>1, <2>1, DevKeeps, UsartParts
  <1>. QED
    BY <1>1, UsartStepKeeps

\* The serial port keeps the invariant.
LEMMA UsartInvariant == UsartSpec => []UsartInv
  BY UsartInvInit, UsartInvStep, PTL DEF UsartSpec

\* The type invariant follows.
LEMMA UsartInvType == UsartInv => UsartTypeOK
  <1>. SUFFICES ASSUME UsartInv
                PROVE  UsartTypeOK
    OBVIOUS
  <1>1. /\ io \in IoState /\ host \in HostEnd /\ sent \in Nat /\ Len(io.txq) <= TxSlots
        /\ host.last <= io.base /\ io.base \in Nat /\ io.base <= sent /\ host.room <= PtyRoom
        /\ Len(io.txq) = (IF sent - io.base < TxSlots THEN sent - io.base ELSE TxSlots)
        /\ \A k \in 1 .. Len(io.txq) : io.txq[k] = sent - Len(io.txq) + k
    BY UsartParts DEF Port, Sending, Full, IoState
  <1>2. /\ lastRx \in 0 .. host.typed /\ rxGone \in 0 .. host.typed /\ host.next <= host.typed + 1
        /\ io.rxb = 0 => host.next = Later(lastRx, rxGone) + 1
        /\ io.rxb # 0 => io.rxb = Later(lastRx, rxGone) + 1 /\ host.next = Later(lastRx, rxGone) + 2
    BY UsartParts DEF Port, Receiving
  <1>3. /\ io.fd \in Fds /\ io.so \in BOOLEAN /\ io.txq \in Seq(Nat) /\ io.rxb \in Nat
        /\ host.typed \in Nat /\ host.next \in Nat /\ host.room \in Nat /\ host.last \in Nat
    BY <1>1 DEF IoState, HostEnd
  <1>4. Later(lastRx, rxGone) \in Nat
    BY <1>2, <1>3 DEF Later
  <1>5. io.rxb \in 0 .. host.typed /\ host.next \in 1 .. host.typed + 1
    BY <1>2, <1>3, <1>4
  <1>6. io.txq \in Seq(1 .. sent)
    <2>. DEFINE q == io.txq
    <2>1. q \in Seq(Nat) /\ Len(q) \in Nat /\ Len(q) <= sent
      BY <1>1, <1>3
    <2>2. ASSUME NEW k \in 1 .. Len(q)
          PROVE  q[k] \in 1 .. sent
      <3>. DEFINE n == Len(q)
                  x == q[k]
      <3>1. x = sent - n + k /\ n \in Nat /\ n <= sent /\ k \in 1 .. n
        BY <1>1, <2>1
      <3>. HIDE DEF n, x
      <3>2. x \in 1 .. sent
        BY <1>1, <3>1
      <3>. QED
        BY <3>2 DEF x
    <2>3. q \in [1 .. Len(q) -> Nat]
      BY <2>1
    <2>. HIDE DEF q
    <2>4. q \in [1 .. Len(q) -> 1 .. sent]
      BY <2>2, <2>3
    <2>5. q \in Seq(1 .. sent)
      <3>. DEFINE n == Len(q)
                  S == 1 .. sent
      <3>1. n \in Nat /\ q \in [1 .. n -> S]
        BY <2>1, <2>4
      <3>. HIDE DEF n, S
      <3>2. q \in Seq(S)
        BY ONLY <3>1, SeqDef, Zenon
      <3>. QED
        BY <3>2 DEF S
    <2>. QED
      BY <2>5 DEF q
  <1>7. host.room \in 0 .. PtyRoom /\ host.last \in 0 .. sent
    <2>1. Len(io.txq) \in Nat /\ PtyRoom \in Nat
      BY <1>3, SerialBounds
    <2>. QED
      BY <1>1, <1>3, <2>1
  <1>8. sent \in 0 .. MaxSent[cpu] /\ host.typed \in 0 .. MaxTyped[cpu]
    BY UsartParts
  <1>9. {uartStdout, ready, booted, uirq} \subseteq BOOLEAN
    BY UsartParts
  <1>. QED
    BY <1>1, <1>2, <1>3, <1>5, <1>6, <1>7, <1>8, <1>9, UsartParts DEF UsartTypeOK

\* The ring holds the newest bytes, as many as fit, without a gap and all after what the
\* host has seen (mm_uart_io_queue_tx, mm_uart_io_flush), for every ring size and any
\* number of bytes.
THEOREM OutputCorrect == UsartSpec => []OutputKeepsNewest
  <1>1. UsartInv => OutputKeepsNewest
    <2>. SUFFICES ASSUME UsartInv
                  PROVE  OutputKeepsNewest
      OBVIOUS
    <2>1. Sending(io, host, sent)
      BY UsartParts DEF Port
    <2>. QED
      BY <2>1 DEF Sending, Full, OutputKeepsNewest
  <1>. QED
    BY <1>1, UsartInvariant, PTL

\* Software reads the bytes in the order they were typed and skips none but those lost
\* with a closed port (mm_uart_io_poll, mm_uart_io_read), for any number of bytes.
THEOREM InputCorrect == UsartSpec => NoByteSkipped
  <1>1. UsartInv /\ [UsartNext]_usartVars =>
          [lastRx' # lastRx => lastRx' = (IF lastRx > rxGone THEN lastRx ELSE rxGone) + 1]_usartVars
    BY UsartStepKeeps DEF InOrder, Later
  <1>. QED
    BY <1>1, UsartInvariant, PTL DEF UsartSpec, NoByteSkipped

-----------------------------------------------------------------------------
(* The SPI controllers: EOT, and the bounds of the FIFO and the size counter. *)

CountsDown ==
    active /\ ~endless /\ cpu \in Stm32 => rem > 0 /\ rem = tsize - xfers

SpiBits == active \in BOOLEAN /\ endless \in BOOLEAN /\ eot \in BOOLEAN

SpiInv ==
    /\ cpu \in Targets
    /\ SpiBits
    /\ tsize \in Nat /\ rem \in Nat /\ xfers \in Nat /\ width \in {1, 2, 4}
    /\ EotMeansAllSent
    /\ CountsDown
    /\ eot => ~active
    /\ cpu = "mcxw71c" => ~eot
    /\ cpu = "nrf5340" => ~active

USE DEF SpiBits, SpiInv, EotMeansAllSent, CountsDown, Stm32, Targets

\* The controller starts idle.
LEMMA SpiInvInit == SpiInit => SpiInv
  <1>1. SpiInit => SpiBits
    BY DEF SpiInit, SpiAtReset
  <1>2. SpiInit => /\ ~active /\ ~eot /\ tsize = 0 /\ rem = 0 /\ xfers = 0 /\ width = 1
                   /\ cpu \in Targets
    BY DEF SpiInit, SpiAtReset, TargetInit
  <1>. HIDE DEF SpiBits
  <1>. QED
    BY <1>1, <1>2

\* A frame moved counts the transfer down by its size.
LEMMA HandleTxStep ==
  ASSUME SpiInv, cpu \in Stm32, NEW size \in AccessSizes, spi_handle_tx(size)
  PROVE  SpiInv'
  <1>. DEFINE n == frame_bytes(size)
              left == IF endless \/ ~active THEN rem ELSE IF rem > n THEN rem - n ELSE 0
              finished == active /\ ~endless /\ left = 0
  <1>1. n \in 1 .. 4
    BY DEF frame_bytes, AccessSizes
  <1>2. CASE ~spe
    BY <1>2 DEF spi_handle_tx
  <1>3. CASE spe
    <2>1. /\ rem' = left
          /\ active' = (active /\ ~finished)
          /\ eot' = (eot \/ finished)
          /\ xfers' = IF active THEN xfers + n ELSE xfers
          /\ UNCHANGED <<cpu, endless, tsize, width>>
      BY <1>3 DEF spi_handle_tx
    <2>. HIDE DEF n
    <2>2. CASE ~active
      BY <2>1, <2>2, <1>1
    <2>3. CASE active /\ endless
      BY <2>1, <2>3, <1>1
    <2>4. CASE active /\ ~endless
      BY <2>1, <2>4, <1>1
    <2>. QED
      BY <2>2, <2>3, <2>4
  <1>. QED
    BY <1>2, <1>3

\* CSTART loads the counter; clearing SPE ends the transfer.
LEMMA WriteCr1Step ==
  ASSUME SpiInv, cpu \in Stm32, NEW setSpe \in BOOLEAN, NEW cstart \in BOOLEAN,
         NEW size \in Sizes, spi_write_cr1(setSpe, cstart, size)
  PROVE  SpiInv'
  <1>. DEFINE off == ~setSpe /\ ~busy
              on == setSpe \/ (spe /\ ~off)
  <1>1. cpu' = cpu /\ width' = width
    BY DEF spi_write_cr1
  <1>2. CASE cstart /\ on
    <2>1. spi_start_transfer(size)
      BY <1>2 DEF spi_write_cr1
    <2>2. size \in Nat
      BY SpiBounds
    <2>3. SpiBits'
      BY <2>1 DEF spi_start_transfer
    <2>4. ~eot' /\ tsize' = size /\ rem' = size /\ xfers' = 0 /\ (size = 0 => endless')
      BY <2>1 DEF spi_start_transfer
    <2>. HIDE DEF SpiBits
    <2>. QED
      BY <1>1, <2>2, <2>3, <2>4
  <1>3. CASE ~(cstart /\ on)
    <2>1. /\ active' = (active /\ ~off) /\ eot' = (eot /\ ~off)
          /\ rem' = IF off THEN 0 ELSE rem
          /\ UNCHANGED <<endless, tsize, xfers>>
      BY <1>3 DEF spi_write_cr1
    <2>. QED
      BY <1>1, <2>1
  <1>. QED
    BY <1>2, <1>3

\* Reads, writes and polls of an STM32 controller keep the invariant.
LEMMA StmStep ==
  ASSUME SpiInv, cpu \in Stm32,
         spi_read \/ spi_write \/ spi_poll
  PROVE  SpiInv'
  <1>1. ASSUME NEW size \in AccessSizes, spi_read_rxdr(size)
        PROVE  SpiInv'
    BY <1>1 DEF spi_read_rxdr
  <1>2. CASE spi_read_sr
    BY <1>2 DEF spi_read_sr
  <1>3. CASE spi_poll
    BY <1>3 DEF spi_poll
  <1>4. ASSUME NEW size \in AccessSizes, spi_handle_tx(size)
        PROVE  SpiInv'
    BY <1>4, HandleTxStep
  <1>5. CASE spi_write_ifcr
    BY <1>5 DEF spi_write_ifcr
  <1>6. CASE spi_write_reg
    BY <1>6 DEF spi_write_reg
  <1>7. ASSUME NEW setSpe \in BOOLEAN, NEW cstart \in BOOLEAN, NEW size \in Sizes,
               spi_write_cr1(setSpe, cstart, size)
        PROVE  SpiInv'
    BY <1>7, WriteCr1Step
  <1>. QED
    BY <1>1, <1>2, <1>3, <1>4, <1>5, <1>6, <1>7 DEF spi_read, spi_write

\* Every step of every target keeps the invariant.
LEMMA SpiInvStep == SpiInv /\ [SpiNext]_spiVars => SpiInv'
  <1>. SUFFICES ASSUME SpiInv, [SpiNext]_spiVars
                PROVE  SpiInv'
    OBVIOUS
  <1>1. CASE \/ stm32l552_spi_read \/ stm32h563_spi_read \/ stm32u585_spi_read
             \/ stm32l552_spi_write \/ stm32h563_spi_write \/ stm32u585_spi_write
             \/ stm32l552_spi_poll \/ stm32h563_spi_poll \/ stm32u585_spi_poll
    <2>1. cpu \in Stm32 /\ (spi_read \/ spi_write \/ spi_poll)
      BY <1>1 DEF stm32l552_spi_read, stm32h563_spi_read, stm32u585_spi_read,
                  stm32l552_spi_write, stm32h563_spi_write, stm32u585_spi_write,
                  stm32l552_spi_poll, stm32h563_spi_poll, stm32u585_spi_poll
    <2>. QED
      BY <2>1, StmStep
  <1>2. CASE mcxw71c_spi_read
    BY <1>2 DEF mcxw71c_spi_read
  <1>3. CASE mcxw71c_spi_write
    <2>1. /\ cpu = "mcxw71c"
          /\ \/ UNCHANGED <<cpu, active, endless, tsize, rem, eot, width, xfers>>
             \/ active' = ~active /\ UNCHANGED <<cpu, endless, tsize, rem, eot, width, xfers>>
      BY <1>3 DEF mcxw71c_spi_write, mcxw71c_spi_write_cr, mcxw71c_spi_write_tdr,
                  mcxw71c_spi_write_tcr
    <2>2. SpiBits'
      BY <2>1
    <2>. HIDE DEF SpiBits
    <2>. QED
      BY <2>1, <2>2
  <1>4. ASSUME NEW txcnt \in 0 .. 2, NEW rxcnt \in 0 .. 2, NEW hf \in BOOLEAN,
               nrf5340_spim_run(txcnt, rxcnt, hf)
        PROVE  SpiInv'
    BY <1>4 DEF nrf5340_spim_run
  <1>5. CASE nrf5340_spim_write
    <2>1. SpiBits'
      BY <1>5 DEF nrf5340_spim_write
    <2>2. /\ UNCHANGED <<cpu, active, tsize, rem, width, xfers>> /\ (eot' => eot)
          /\ ~active /\ cpu = "nrf5340"
      BY <1>5 DEF nrf5340_spim_write
    <2>. HIDE DEF SpiBits
    <2>. QED
      BY <2>1, <2>2
  <1>6. CASE SpiIrqTaken
    BY <1>6 DEF SpiIrqTaken
  <1>7. CASE SpiReset
    BY <1>7 DEF SpiReset
  <1>8. CASE UNCHANGED spiVars
    BY <1>8 DEF spiVars
  <1>. QED
    BY <1>1, <1>2, <1>3, <1>4, <1>5, <1>6, <1>7, <1>8 DEF SpiNext

(***************************************************************************)
(* EOT is shown only when the transfer of the last CSTART has moved its    *)
(* TSIZE bytes, and at most the rest of one frame more (spi_handle_tx,     *)
(* spi_start_transfer, spi_set_enabled, serial_spim_run).                  *)
(***************************************************************************)
THEOREM EotMeansAllSentCorrect == SpiSpec => []EotMeansAllSent
  <1>1. SpiInv => EotMeansAllSent
    OBVIOUS
  <1>. QED
    BY SpiInvInit, SpiInvStep, <1>1, PTL DEF SpiSpec

HIDE DEF SpiBits, SpiInv, EotMeansAllSent, CountsDown, Stm32, Targets

\* The bits and the numbers of the type invariant.  That the size counter stays below the
\* size needs that the SPIM, which sets a size and never counts, leaves it at zero.
SpiFlags ==
  /\ spe \in BOOLEAN /\ active \in BOOLEAN /\ endless \in BOOLEAN /\ eot \in BOOLEAN
  /\ busy \in BOOLEAN /\ width \in {1, 2, 4} /\ sirq \in BOOLEAN
SpiNumbers ==
  /\ cpu \in Targets /\ tsize \in Nat /\ rxn \in 0 .. FifoSlots /\ rem \in 0 .. tsize
  /\ xfers \in 0 .. MaxXfer /\ opened \in 0 .. MaxXfer
  /\ cpu = "nrf5340" => rem = 0
SpiTyped == SpiFlags /\ SpiNumbers /\ ier \subseteq Flags

\* A byte more or less in the receive FIFO.
LEMMA FifoStays ==
  ASSUME NEW q \in 0 .. FifoSlots, NEW n \in 1 .. 4
  PROVE  fifo_push(q, n) \in 0 .. FifoSlots /\ fifo_pop(q, n) \in 0 .. FifoSlots
  BY SpiBounds DEF fifo_push, fifo_pop

\* Every step of a controller stays within the FIFO and the bounds.
LEMMA SpiTypedStep ==
  ASSUME SpiTyped, SpiNext
  PROVE  SpiTyped'
  <1>0. SpiFlags /\ SpiNumbers /\ ier \subseteq Flags /\ MaxXfer \in Nat /\ MaxXfer >= 4
    BY SpiBounds DEF SpiTyped
  <1>a. \A size \in AccessSizes : frame_bytes(size) \in 1 .. 4
    BY <1>0 DEF SpiFlags, frame_bytes, AccessSizes
  <1>1. ASSUME NEW size \in AccessSizes, spi_handle_tx(size), cpu \in Stm32
        PROVE  SpiTyped'
    <2>. DEFINE n == frame_bytes(size)
                left == IF endless \/ ~active THEN rem ELSE IF rem > n THEN rem - n ELSE 0
                finished == active /\ ~endless /\ left = 0
    <2>0. cpu # "nrf5340"
      BY <1>1 DEF Stm32
    <2>1. CASE ~spe
      <3>1. UNCHANGED <<rxn, rem, active, eot, xfers, opened, busy, cpu, spe, endless, tsize, width, ier, sirq>>
        BY <1>1, <2>1 DEF spi_handle_tx
      <3>. QED
        BY <1>0, <3>1 DEF SpiTyped, SpiFlags, SpiNumbers
    <2>2. CASE spe
      <3>1. /\ xfers + n <= MaxXfer /\ opened + n <= MaxXfer
            /\ rxn' = fifo_push(rxn, n) /\ rem' = left
            /\ xfers' = IF active THEN xfers + n ELSE xfers
            /\ opened' = IF finished THEN 0 ELSE opened + n
            /\ UNCHANGED <<cpu, spe, endless, tsize, width, ier, sirq>>
        BY <1>1, <2>2 DEF spi_handle_tx
      <3>2. active' \in BOOLEAN /\ eot' \in BOOLEAN /\ busy' \in BOOLEAN
        BY <1>1, <2>2 DEF spi_handle_tx
      <3>3. SpiFlags'
        BY <1>0, <3>1, <3>2 DEF SpiFlags
      <3>4. rxn' \in 0 .. FifoSlots
        BY <1>0, <1>a, <3>1, FifoStays DEF SpiNumbers
      <3>5. left \in 0 .. tsize
        BY <1>0, <1>a DEF SpiNumbers
      <3>. HIDE DEF n, left, finished
      <3>6. xfers' \in 0 .. MaxXfer /\ opened' \in 0 .. MaxXfer
        BY <1>0, <1>a, <3>1 DEF SpiNumbers, n
      <3>. QED
        BY <1>0, <2>0, <3>1, <3>3, <3>4, <3>5, <3>6 DEF SpiTyped, SpiNumbers
    <2>. QED
      BY <2>1, <2>2
  <1>2. CASE spi_read
    <2>1. PICK size \in AccessSizes : rxn' = fifo_pop(rxn, frame_bytes(size)) \/ rxn' = rxn
      BY <1>2 DEF spi_read, spi_read_rxdr, spi_read_sr, AccessSizes
    <2>2. /\ UNCHANGED <<cpu, spe, active, endless, tsize, rem, eot, width, ier, sirq, xfers, opened>>
          /\ busy' \in BOOLEAN
      BY <1>2 DEF spi_read, spi_read_rxdr, spi_read_sr, update_sr
    <2>3. rxn' \in 0 .. FifoSlots
      BY <1>0, <1>a, <2>1, FifoStays DEF SpiNumbers
    <2>. QED
      BY <1>0, <2>2, <2>3 DEF SpiTyped, SpiFlags, SpiNumbers
  <1>3. ASSUME NEW setSpe \in BOOLEAN, NEW cstart \in BOOLEAN, NEW size \in Sizes, cpu \in Stm32,
               spi_write_cr1(setSpe, cstart, size)
        PROVE  SpiTyped'
    <2>. DEFINE off == ~setSpe /\ ~busy
                on == setSpe \/ (spe /\ ~off)
    <2>0. cpu # "nrf5340" /\ size \in Nat
      BY <1>3, SpiBounds DEF Stm32
    <2>1. /\ rxn' = rxn \/ rxn' = 0
          /\ opened' = opened \/ opened' = 0
          /\ UNCHANGED <<cpu, width, ier, sirq>>
      BY <1>3 DEF spi_write_cr1
    <2>2. spe' \in BOOLEAN
      BY <1>3 DEF spi_write_cr1
    <2>5. busy' \in BOOLEAN
      BY <1>0, <1>3 DEF spi_write_cr1, SpiFlags
    <2>3. CASE cstart /\ on
      <3>1. spi_start_transfer(size)
        BY <1>3, <2>3 DEF spi_write_cr1
      <3>2. active' \in BOOLEAN /\ eot' \in BOOLEAN /\ endless' \in BOOLEAN
        BY <3>1 DEF spi_start_transfer
      <3>3. SpiFlags'
        BY <1>0, <2>1, <2>2, <2>5, <3>2 DEF SpiFlags
      <3>4. tsize' = size /\ rem' = size /\ xfers' = 0
        BY <3>1 DEF spi_start_transfer
      <3>. QED
        BY <1>0, <2>0, <2>1, <3>3, <3>4, SpiBounds DEF SpiTyped, SpiNumbers
    <2>4. CASE ~(cstart /\ on)
      <3>1. (rem' = 0 \/ rem' = rem) /\ UNCHANGED <<endless, tsize, xfers>>
        BY <1>3, <2>4 DEF spi_write_cr1
      <3>2. active' \in BOOLEAN /\ eot' \in BOOLEAN
        BY <1>3, <2>4 DEF spi_write_cr1
      <3>3. SpiFlags'
        BY <1>0, <2>1, <2>2, <2>5, <3>1, <3>2 DEF SpiFlags
      <3>. QED
        BY <1>0, <2>0, <2>1, <3>1, <3>3, SpiBounds DEF SpiTyped, SpiNumbers
    <2>. QED
      BY <2>3, <2>4
  <1>4. CASE spi_write_ifcr
    <2>1. eot' \in BOOLEAN /\ UNCHANGED <<cpu, spe, active, endless, tsize, rem, rxn, busy, width, ier, sirq, xfers, opened>>
      BY <1>4 DEF spi_write_ifcr
    <2>. QED
      BY <1>0, <2>1 DEF SpiTyped, SpiFlags, SpiNumbers
  <1>5. CASE spi_write_reg
    <2>1. /\ ier' \subseteq Flags
          /\ UNCHANGED <<cpu, spe, active, endless, tsize, rem, eot, rxn, sirq, xfers, opened>>
      BY <1>0, <1>5 DEF spi_write_reg
    <2>2. width' \in {1, 2, 4} /\ busy' \in BOOLEAN
      BY <1>0, <1>5 DEF spi_write_reg, SpiFlags
    <2>. QED
      BY <1>0, <2>1, <2>2 DEF SpiTyped, SpiFlags, SpiNumbers
  <1>6. CASE spi_poll
    <2>1. UNCHANGED <<cpu, spe, active, endless, tsize, rem, eot, rxn, width, ier, xfers, opened>>
      BY <1>6 DEF spi_poll
    <2>2. sirq' \in BOOLEAN /\ busy' \in BOOLEAN
      BY <1>6 DEF spi_poll, update_sr
    <2>. QED
      BY <1>0, <2>1, <2>2 DEF SpiTyped, SpiFlags, SpiNumbers
  <1>7. CASE mcxw71c_spi_read
    <2>1. rxn' = 0 /\ UNCHANGED <<cpu, spe, active, endless, tsize, rem, eot, busy, width, ier, sirq, xfers, opened>>
      BY <1>7 DEF mcxw71c_spi_read
    <2>. QED
      BY <1>0, <2>1, SpiBounds DEF SpiTyped, SpiFlags, SpiNumbers
  <1>8. CASE mcxw71c_spi_write
    <2>1. /\ UNCHANGED <<cpu, endless, tsize, rem, eot, busy, width, ier, sirq, xfers>>
          /\ rxn' \in {0, 1, rxn}
          /\ opened' \in {0, opened} \/ (opened < MaxXfer /\ opened' = opened + 1)
      <3>1. ASSUME NEW men \in BOOLEAN, NEW rrf \in BOOLEAN, mcxw71c_spi_write_cr(men, rrf)
            PROVE  <2>1!1 /\ <2>1!2 /\ <2>1!3
        BY <3>1 DEF mcxw71c_spi_write_cr
      <3>2. ASSUME NEW txmsk \in BOOLEAN, NEW rxmsk \in BOOLEAN, mcxw71c_spi_write_tdr(txmsk, rxmsk)
            PROVE  <2>1!1 /\ <2>1!2 /\ <2>1!3
        <4>1. opened \in Nat
          BY <1>0 DEF SpiNumbers
        <4>. QED
          BY <3>2, <4>1 DEF mcxw71c_spi_write_tdr
      <3>3. CASE mcxw71c_spi_write_tcr
        BY <3>3 DEF mcxw71c_spi_write_tcr
      <3>. QED
        BY <1>8, <3>1, <3>2, <3>3 DEF mcxw71c_spi_write
    <2>2. spe' \in BOOLEAN /\ active' \in BOOLEAN
      BY <1>0, <1>8 DEF mcxw71c_spi_write, mcxw71c_spi_write_cr, mcxw71c_spi_write_tdr,
                        mcxw71c_spi_write_tcr, SpiFlags
    <2>3. SpiFlags'
      BY <1>0, <2>1, <2>2 DEF SpiFlags
    <2>. QED
      BY <1>0, <2>1, <2>3, SpiBounds DEF SpiTyped, SpiNumbers
  <1>9. ASSUME NEW txcnt \in 0 .. 2, NEW rxcnt \in 0 .. 2, NEW hf \in BOOLEAN,
               nrf5340_spim_run(txcnt, rxcnt, hf)
        PROVE  SpiTyped'
    <2>1. /\ cpu = "nrf5340" /\ xfers' \in 0 .. 2 /\ tsize' = xfers' /\ opened' = 0
          /\ UNCHANGED <<cpu, spe, active, endless, rem, rxn, busy, width, ier>>
      BY <1>9 DEF nrf5340_spim_run
    <2>2. eot' \in BOOLEAN /\ sirq' \in BOOLEAN
      BY <1>9 DEF nrf5340_spim_run
    <2>3. SpiFlags'
      BY <1>0, <2>1, <2>2 DEF SpiFlags
    <2>. QED
      BY <1>0, <2>1, <2>3 DEF SpiTyped, SpiNumbers
  <1>10. CASE nrf5340_spim_write
    <2>1. /\ opened' \in {0, opened} /\ ier' \subseteq Flags
          /\ UNCHANGED <<cpu, active, endless, tsize, rem, rxn, busy, width, sirq, xfers>>
      BY <1>0, <1>10 DEF nrf5340_spim_write, Flags
    <2>2. spe' \in BOOLEAN /\ eot' \in BOOLEAN
      BY <1>0, <1>10 DEF nrf5340_spim_write, SpiFlags
    <2>3. SpiFlags'
      BY <1>0, <2>1, <2>2 DEF SpiFlags
    <2>. QED
      BY <1>0, <2>1, <2>3 DEF SpiTyped, SpiNumbers
  <1>11. CASE SpiIrqTaken
    <2>1. sirq' \in BOOLEAN /\ UNCHANGED <<cpu, spe, active, endless, tsize, rem, eot, rxn, busy, width, ier, xfers, opened>>
      BY <1>11 DEF SpiIrqTaken
    <2>. QED
      BY <1>0, <2>1 DEF SpiTyped, SpiFlags, SpiNumbers
  <1>12. CASE SpiReset
    <2>1. SpiFlags'
      BY <1>12 DEF SpiReset, update_sr, SpiFlags
    <2>2. /\ cpu' = cpu /\ tsize' = 0 /\ rem' = 0 /\ rxn' = 0 /\ xfers' = 0 /\ opened' = 0 /\ ier' = {}
      BY <1>12 DEF SpiReset
    <2>. QED
      BY <1>0, <2>1, <2>2, SpiBounds DEF SpiTyped, SpiNumbers
  <1>13. CASE \/ stm32l552_spi_read \/ stm32h563_spi_read \/ stm32u585_spi_read
              \/ stm32l552_spi_write \/ stm32h563_spi_write \/ stm32u585_spi_write
              \/ stm32l552_spi_poll \/ stm32h563_spi_poll \/ stm32u585_spi_poll
    <2>1. cpu \in Stm32 /\ (spi_read \/ spi_write \/ spi_poll)
      BY <1>13 DEF stm32l552_spi_read, stm32h563_spi_read, stm32u585_spi_read,
                   stm32l552_spi_write, stm32h563_spi_write, stm32u585_spi_write,
                   stm32l552_spi_poll, stm32h563_spi_poll, stm32u585_spi_poll, Stm32
    <2>. QED
      BY <2>1, <1>1, <1>2, <1>3, <1>4, <1>5, <1>6 DEF spi_write
  <1>. QED
    BY <1>7, <1>8, <1>9, <1>10, <1>11, <1>12, <1>13 DEF SpiNext

\* At reset, and what the invariant says in the words of the module.
LEMMA SpiTypedInit == SpiInit => SpiTyped
  <1>. SUFFICES ASSUME SpiInit
                PROVE  SpiTyped
    OBVIOUS
  <1>1. SpiFlags
    BY DEF SpiInit, SpiAtReset, SpiFlags
  <1>2. cpu \in Targets /\ tsize = 0 /\ rem = 0 /\ rxn = 0 /\ xfers = 0 /\ opened = 0 /\ ier = {}
    BY DEF SpiInit, SpiAtReset, TargetInit
  <1>. QED
    BY <1>1, <1>2, SpiBounds DEF SpiTyped, SpiNumbers

\* The bounds of the fields are the type invariant.
LEMMA SpiTypedIsType == SpiTyped => SpiTypeOK
  <1>. SUFFICES ASSUME SpiTyped
                PROVE  SpiTypeOK
    OBVIOUS
  <1>1. {spe, active, endless, eot, busy, sirq} \subseteq BOOLEAN /\ width \in {1, 2, 4}
    BY DEF SpiTyped, SpiFlags
  <1>. QED
    BY <1>1 DEF SpiTyped, SpiNumbers, SpiTypeOK

-----------------------------------------------------------------------------
(* The SPI flash: the host file and the write enable latch. *)

FlStates == {"IDLE", "ADDR", "READ", "PP", "STATUS_READ", "STATUS_WRITE"}
Addressed == {"READ", "PP", "SE", "BE"}

FlState == [state : FlStates, cmd : Commands, addr : Nat, page : Nat, have : Nat, we : BOOLEAN,
            bp : BOOLEAN, cs : 0 .. 1, dirty : BOOLEAN]

\* The decoder: where its address may be, and which command each state belongs to.
FlOK(f) ==
  /\ f \in FlState
  /\ f.page \in Cells /\ f.addr \in Cells \cup f.page .. f.page + PageSize - 1
  /\ f.have \in 0 .. AddrBytes
  /\ f.state = "ADDR" => f.have < AddrBytes /\ f.cmd \in Addressed
  /\ f.state = "PP" => f.cmd = "PP"

Arrays == [Cells -> BOOLEAN]
Images == {im \in Seq(BOOLEAN) : Len(im) <= FlashSize}

\* Unless the last write failed or was cut short, the file holds the array or the array is
\* marked dirty, and a dirty array is being programmed.
Kept(f, m, im, bad) == ~bad => IF f.dirty THEN f.state = "PP" ELSE im = Contents(m)

\* A write enable latch that is set is fresh, or belongs to the page program in progress.
Armed(f, i, sp) == f.we => sp = 0 \/ (f.state = "PP" /\ sp = i)

SpiFlashInv ==
  /\ FlOK(fl) /\ mem \in Arrays /\ file \in Images /\ failed \in BOOLEAN
  /\ csValid \in BOOLEAN /\ pin \in 0 .. 1 /\ instr \in Nat
  /\ Kept(fl, mem, file, failed) /\ Armed(fl, instr, spent)

\* The state after the chip select was sampled.
Good(s) ==
  /\ s = [fl |-> s.fl, file |-> s.file, failed |-> s.failed]
  /\ FlOK(s.fl) /\ s.file \in Images /\ s.failed \in BOOLEAN
  /\ Kept(s.fl, mem, s.file, s.failed) /\ Armed(s.fl, instr, spent)

\* One instruction at a time: the step's part of WrenCoversOneInstruction.
OneInstruction == (mem' # mem /\ instr' # 0) => spent \in {0, instr'}

\* The sizes of the flash are positive, and its addresses start at 0.
LEMMA Geometry ==
  /\ FlashSize \in Nat \ {0} /\ PageSize \in Nat \ {0} /\ SectorSize \in Nat \ {0} /\ BlockSize \in Nat \ {0}
  /\ AddrBytes \in Nat \ {0} /\ MaxInstr \in Nat \ {0} /\ 0 \in Cells /\ Cells \subseteq Nat
  BY SpiFlashGeometry DEF Cells

\* What is written to the file is an image of the array, or the beginning of it.
LEMMA ContentsType ==
  ASSUME NEW m \in Arrays
  PROVE  /\ Contents(m) \in Seq(BOOLEAN) /\ Len(Contents(m)) = FlashSize /\ Contents(m) \in Images
         /\ \A w \in 0 .. FlashSize : SubSeq(Contents(m), 1, w) \in Images
         /\ SubSeq(Contents(m), 1, FlashSize) = Contents(m)
  <1>. DEFINE c == Contents(m)
  <1>0. FlashSize \in Nat
    BY Geometry
  <1>1. c \in [1 .. FlashSize -> BOOLEAN]
    BY <1>0 DEF Contents, Arrays, Cells
  <1>. HIDE DEF c
  <1>2. c \in Seq(BOOLEAN) /\ Len(c) = FlashSize
    BY <1>0, <1>1
  <1>3. ASSUME NEW w \in 0 .. FlashSize
        PROVE  /\ SubSeq(c, 1, w) \in Seq(BOOLEAN) /\ Len(SubSeq(c, 1, w)) = w
               /\ \A k \in 1 .. w : SubSeq(c, 1, w)[k] = c[k]
    <2>1. w \in Int /\ 1 \in Int /\ \A k \in 1 .. w : c[k] \in BOOLEAN
      BY <1>0, <1>1
    <2>2. /\ SubSeq(c, 1, w) \in Seq(BOOLEAN)
          /\ Len(SubSeq(c, 1, w)) = IF 1 <= w THEN w - 1 + 1 ELSE 0
          /\ \A k \in 1 .. w - 1 + 1 : SubSeq(c, 1, w)[k] = c[1 + k - 1]
      BY ONLY <2>1, SubSeqProperties
    <2>3. w - 1 + 1 = w /\ \A k \in 1 .. w : 1 + k - 1 = k
      BY <1>0
    <2>. QED
      BY <1>0, <2>2, <2>3
  <1>4. FlashSize \in 0 .. FlashSize /\ \A w \in 0 .. FlashSize : w <= FlashSize
    BY <1>0
  <1>5. SubSeq(c, 1, FlashSize) = c
    <2>. DEFINE d == SubSeq(c, 1, FlashSize)
    <2>1. d \in Seq(BOOLEAN) /\ Len(d) = FlashSize /\ \A k \in 1 .. FlashSize : d[k] = c[k]
      BY <1>3, <1>4
    <2>. HIDE DEF d
    <2>2. d = c
      BY <1>2, <2>1, SeqEqual
    <2>. QED
      BY <2>2 DEF d
  <1>6. c \in Images /\ \A w \in 0 .. FlashSize : SubSeq(c, 1, w) \in Images
    BY <1>0, <1>2, <1>3, <1>4 DEF Images
  <1>. QED
    BY <1>2, <1>5, <1>6 DEF c

\* Rounding down stays in the array, and the remainder is less than the size.
LEMMA AlignDownIs ==
  ASSUME NEW a \in Nat, NEW n \in Nat \ {0}
  PROVE  AlignDown(a, n) \in 0 .. a /\ a \in AlignDown(a, n) .. AlignDown(a, n) + n - 1
  <1>1. a % n \in 0 .. n - 1 /\ a % n <= a
    <2>1. n > 0
      OBVIOUS
    <2>2. a \div n \in Nat /\ a % n \in 0 .. n - 1 /\ a = n * (a \div n) + (a % n)
      BY <2>1, DivMod
    <2>3. n * (a \div n) \in Nat
      BY <2>2
    <2>. QED
      BY <2>2, <2>3
  <1>. QED
    BY <1>1 DEF AlignDown

\* spiflash_sync: afterwards the file holds the array, or the attempt failed or was cut short.
LEMMA SyncIs ==
  ASSUME NEW f, FlOK(f), NEW m \in Arrays, NEW wrote \in Writes, NEW old \in Images, failed \in BOOLEAN,
         ~f.dirty /\ ~failed => old = Contents(m)
  PROVE  LET s == spiflash_sync(f, m, old, wrote)
         IN  /\ FlOK(s.fl) /\ s.file \in Images /\ s.failed \in BOOLEAN
             /\ s.fl.state = f.state /\ s.fl.cmd = f.cmd /\ s.fl.we = f.we
             /\ ~s.failed => ~s.fl.dirty /\ s.file = Contents(m)
  <1>1. CASE f.dirty /\ wrote # Refused
    <2>. DEFINE g == [f EXCEPT !.dirty = FALSE]
                c == SubSeq(Contents(m), 1, wrote)
                b == wrote < FlashSize
    <2>1. spiflash_sync(f, m, old, wrote) = [fl |-> g, file |-> c, failed |-> b]
      BY <1>1 DEF spiflash_sync
    <2>2. FlOK(g) /\ g.state = f.state /\ g.cmd = f.cmd /\ g.we = f.we /\ g.dirty = FALSE
      BY DEF FlOK, FlState
    <2>3. wrote \in 0 .. FlashSize /\ FlashSize \in Nat
      BY <1>1, Geometry DEF Writes
    <2>4. c \in Images /\ b \in BOOLEAN
      BY <2>3, ContentsType
    <2>5. ~b => c = Contents(m)
      <3>1. ~b => wrote = FlashSize
        BY <2>3
      <3>. QED
        BY <3>1, ContentsType
    <2>. HIDE DEF g, c, b
    <2>. QED
      BY <2>1, <2>2, <2>4, <2>5
  <1>2. CASE f.dirty /\ wrote = Refused
    <2>1. spiflash_sync(f, m, old, wrote) = [fl |-> f, file |-> old, failed |-> TRUE]
      BY <1>2 DEF spiflash_sync
    <2>. QED
      BY <2>1
  <1>3. CASE ~f.dirty
    <2>1. spiflash_sync(f, m, old, wrote) = [fl |-> f, file |-> old, failed |-> failed]
      BY <1>3 DEF spiflash_sync
    <2>. QED
      BY <1>3, <2>1
  <1>. QED
    BY <1>1, <1>2, <1>3

\* mm_spiflash_cs_deassert ends the instruction: a page program with a sync and without its
\* write enable latch.
LEMMA DeassertIs ==
  ASSUME mem \in Arrays, file \in Images, failed \in BOOLEAN, NEW f, FlOK(f), NEW wrote \in Writes,
         Kept(f, mem, file, failed), Armed(f, instr, spent)
  PROVE  Good(mm_spiflash_cs_deassert(f, wrote))
  <1>. DEFINE s == IF f.state = "PP" THEN spiflash_sync(f, mem, file, wrote)
                                     ELSE [fl |-> f, file |-> file, failed |-> failed]
              w == s.fl.we /\ f.cmd # "PP"
              g == [s.fl EXCEPT !.we = w, !.state = "IDLE", !.cmd = "none", !.addr = 0, !.have = 0]
  <1>1. mm_spiflash_cs_deassert(f, wrote) = [fl |-> g, file |-> s.file, failed |-> s.failed]
    BY DEF mm_spiflash_cs_deassert
  <1>2. /\ FlOK(s.fl) /\ s.file \in Images /\ s.failed \in BOOLEAN
        /\ ~s.failed => ~s.fl.dirty /\ s.file = Contents(mem)
        /\ s.fl.state = f.state /\ s.fl.cmd = f.cmd /\ s.fl.we = f.we
    <2>1. CASE f.state = "PP"
      BY <2>1, SyncIs DEF Kept
    <2>2. CASE f.state # "PP"
      BY <2>2 DEF Kept
    <2>. QED
      BY <2>1, <2>2
  <1>. HIDE DEF s
  <1>3. w \in BOOLEAN /\ (w => spent = 0)
    <2>1. f.cmd # "PP" => f.state # "PP"
      BY DEF FlOK
    <2>2. f.we /\ f.state # "PP" => spent = 0
      BY DEF Armed
    <2>. QED
      BY <1>2, <2>1, <2>2
  <1>. HIDE DEF w
  <1>4. FlOK(g) /\ g.we = w /\ g.dirty = s.fl.dirty /\ g.state = "IDLE"
    <2>1. s.fl \in FlState /\ s.fl.page \in Cells /\ 0 \in Cells /\ AddrBytes \in Nat
      BY <1>2, Geometry DEF FlOK
    <2>2. /\ g \in FlState /\ g.page = s.fl.page /\ g.addr = 0 /\ g.have = 0
          /\ g.we = w /\ g.dirty = s.fl.dirty /\ g.state = "IDLE"
      BY <1>3, <2>1 DEF FlState, FlStates, Commands
    <2>. HIDE DEF g
    <2>. QED
      BY <2>1, <2>2 DEF FlOK
  <1>. HIDE DEF g
  <1>. QED
    BY <1>1, <1>2, <1>3, <1>4 DEF Good, Kept, Armed

\* spiflash_sample_cs
LEMMA SampleIs ==
  ASSUME SpiFlashInv, NEW wrote \in Writes
  PROVE  Good(spiflash_sample_cs(wrote))
  <1>. DEFINE c == [fl EXCEPT !.cs = 1]
              d == [fl EXCEPT !.cs = pin]
  <1>0. /\ FlOK(fl) /\ mem \in Arrays /\ file \in Images /\ failed \in BOOLEAN /\ pin \in 0 .. 1
        /\ Kept(fl, mem, file, failed) /\ Armed(fl, instr, spent)
    BY DEF SpiFlashInv
  <1>1. FlOK(c) /\ c.dirty = fl.dirty /\ c.state = fl.state /\ c.we = fl.we
    BY <1>0 DEF FlOK, FlState
  <1>2. FlOK(d) /\ d.dirty = fl.dirty /\ d.state = fl.state /\ d.we = fl.we
    BY <1>0 DEF FlOK, FlState
  <1>. HIDE DEF c, d
  <1>3. Good(mm_spiflash_cs_deassert(c, wrote))
    BY <1>0, <1>1, DeassertIs DEF Kept, Armed
  <1>4. Good([fl |-> d, file |-> file, failed |-> failed])
    BY <1>0, <1>2 DEF Good, Kept, Armed
  <1>5. Good([fl |-> fl, file |-> file, failed |-> failed])
    BY <1>0 DEF Good
  <1>6. \/ spiflash_sample_cs(wrote) = mm_spiflash_cs_deassert(c, wrote)
        \/ spiflash_sample_cs(wrote) = [fl |-> d, file |-> file, failed |-> failed]
        \/ spiflash_sample_cs(wrote) = [fl |-> fl, file |-> file, failed |-> failed]
    BY DEF spiflash_sample_cs, c, d
  <1>. QED
    BY <1>3, <1>4, <1>5, <1>6

\* A step that leaves the array alone, ends no page program and sets no latch.
LEMMA SettleKeeps ==
  ASSUME SpiFlashInv, NEW s, Good(s), NEW f, Settle(s, f), FlOK(f), f.dirty = s.fl.dirty,
         s.fl.state = "PP" => f.state = "PP",
         UNCHANGED <<mem, csValid, pin>>, instr' \in Nat, Armed(f, instr', spent')
  PROVE  SpiFlashInv' /\ OneInstruction
  <1>1. fl' = f /\ file' = s.file /\ failed' = s.failed /\ mem' = mem
    BY DEF Settle
  <1>2. /\ FlOK(f) /\ mem \in Arrays /\ s.file \in Images /\ s.failed \in BOOLEAN
        /\ csValid \in BOOLEAN /\ pin \in 0 .. 1
    BY DEF SpiFlashInv, Good
  <1>3. Kept(f, mem, s.file, s.failed)
    BY DEF Good, Kept
  <1>4. (Kept(fl, mem, file, failed) /\ FlOK(fl) /\ Armed(fl, instr, spent))'
    BY <1>1, <1>2, <1>3 DEF Kept, FlOK, Armed
  <1>. QED
    BY <1>1, <1>2, <1>4 DEF SpiFlashInv, OneInstruction

\* An erase instruction, from a decoder that has just taken its last byte.
LEMMA EraseKeeps ==
  ASSUME SpiFlashInv, NEW s, Good(s), s.fl.state # "PP", NEW lo \in Nat, NEW n \in Nat,
         NEW wrote \in Writes, Erase(s, lo, n, wrote), UNCHANGED <<csValid, pin>>, instr' \in Nat
  PROVE  SpiFlashInv' /\ OneInstruction
  <1>0. /\ FlOK(s.fl) /\ mem \in Arrays /\ file \in Images /\ failed \in BOOLEAN
        /\ csValid \in BOOLEAN /\ pin \in 0 .. 1
    BY DEF SpiFlashInv, Good
  <1>1. CASE ~s.fl.we
    <2>. DEFINE f == [s.fl EXCEPT !.state = "IDLE"]
    <2>1. Settle(s, f) /\ UNCHANGED <<mem, spent>>
      BY <1>1 DEF Erase
    <2>2. FlOK(f) /\ f.dirty = s.fl.dirty /\ f.we = s.fl.we
      BY <1>0 DEF FlOK, FlState, FlStates
    <2>3. Armed(f, instr', spent')
      BY <1>1, <2>2 DEF Armed
    <2>. HIDE DEF f
    <2>. QED
      BY <2>1, <2>2, <2>3, SettleKeeps
  <1>2. CASE s.fl.we
    <2>. DEFINE f == [s.fl EXCEPT !.we = FALSE, !.state = "IDLE"]
                g == [f EXCEPT !.dirty = TRUE]
                m == [a \in Cells |-> mem[a] \/ a \in lo .. lo + n - 1]
                t == spiflash_sync(g, m, file, wrote)
    <2>1. /\ mem' = m /\ fl' = t.fl /\ file' = t.file /\ failed' = t.failed /\ spent' = instr'
      BY <1>2 DEF Erase, spiflash_erase_range
    <2>2. m \in Arrays
      BY DEF Arrays
    <2>3. FlOK(g) /\ g.dirty = TRUE /\ g.we = FALSE /\ g.state = "IDLE"
      BY <1>0 DEF FlOK, FlState, FlStates
    <2>. HIDE DEF f, g, m
    <2>4. /\ FlOK(t.fl) /\ t.file \in Images /\ t.failed \in BOOLEAN
          /\ t.fl.state = g.state /\ t.fl.we = g.we
          /\ ~t.failed => ~t.fl.dirty /\ t.file = Contents(m)
      <3>1. ~g.dirty /\ ~failed => file = Contents(m)
        BY <2>3
      <3>2. FlOK(g) /\ file \in Images /\ failed \in BOOLEAN
        BY <1>0, <2>3
      <3>. QED
        BY <2>2, <3>1, <3>2, SyncIs
    <2>. HIDE DEF t
    <2>5. SpiFlashInv'
      BY <1>0, <2>1, <2>2, <2>3, <2>4 DEF SpiFlashInv, FlOK, Kept, Armed
    <2>6. spent = 0
      BY <1>2 DEF Good, Armed
    <2>. QED
      BY <2>5, <2>6 DEF OneInstruction
  <1>. QED
    BY <1>1, <1>2

\* The byte of a new instruction.
LEMMA IdleKeeps ==
  ASSUME SpiFlashInv, NEW s, Good(s), NEW cmd \in Commands, NEW wrote \in Writes,
         xfer_idle(s, cmd, wrote), UNCHANGED <<csValid, pin>>
  PROVE  SpiFlashInv' /\ OneInstruction
  <1>. DEFINE f == [s.fl EXCEPT !.cmd = cmd, !.addr = 0, !.have = 0]
  <1>0. s.fl.state = "IDLE" /\ instr' = instr + 1 /\ instr' \in Nat /\ FlOK(s.fl)
    BY DEF xfer_idle, SpiFlashInv, Good
  <1>1. FlOK(f) /\ f.dirty = s.fl.dirty /\ f.we = s.fl.we /\ f.state = "IDLE" /\ f.have = 0 /\ f.cmd = cmd
    <2>1. s.fl \in FlState /\ s.fl.page \in Cells /\ 0 \in Cells /\ AddrBytes \in Nat
      BY <1>0, Geometry DEF FlOK
    <2>2. /\ f \in FlState /\ f.page = s.fl.page /\ f.addr = 0 /\ f.have = 0 /\ f.cmd = cmd
          /\ f.we = s.fl.we /\ f.dirty = s.fl.dirty /\ f.state = "IDLE"
      BY <1>0, <2>1 DEF FlState
    <2>. HIDE DEF f
    <2>. QED
      BY <2>1, <2>2 DEF FlOK
  <1>2. f.we => spent = 0
    BY <1>0, <1>1 DEF Good, Armed
  <1>3. ASSUME NEW st \in FlStates, st # "PP", st = "ADDR" => cmd \in Addressed, NEW we \in BOOLEAN,
               NEW h, h = [f EXCEPT !.state = st, !.we = we], we => spent' = 0,
               Settle(s, h), UNCHANGED mem
        PROVE  SpiFlashInv' /\ OneInstruction
    <2>1. FlOK(h) /\ h.dirty = s.fl.dirty /\ h.we = we
      <3>. HIDE DEF f
      <3>1. /\ f \in FlState /\ f.page \in Cells /\ f.addr \in Cells \cup f.page .. f.page + PageSize - 1
            /\ AddrBytes \in Nat \ {0}
        BY <1>1, Geometry DEF FlOK
      <3>2. /\ h \in FlState /\ h.page = f.page /\ h.addr = f.addr /\ h.have = f.have /\ h.cmd = f.cmd
            /\ h.we = we /\ h.dirty = f.dirty /\ h.state = st
        BY <1>3, <3>1 DEF FlState
      <3>. QED
        BY <1>1, <1>3, <3>1, <3>2 DEF FlOK
    <2>2. Armed(h, instr', spent')
      BY <1>3, <2>1 DEF Armed
    <2>. QED
      BY <1>0, <1>3, <2>1, <2>2, SettleKeeps
  <1>4. ASSUME NEW st \in FlStates, st # "PP", st = "ADDR" => cmd \in Addressed,
               Settle(s, [f EXCEPT !.state = st]), UNCHANGED <<mem, spent>>
        PROVE  SpiFlashInv' /\ OneInstruction
    <2>1. [f EXCEPT !.state = st] = [f EXCEPT !.state = st, !.we = f.we] /\ f.we \in BOOLEAN
      <3>. HIDE DEF f
      <3>. QED
        BY <1>1 DEF FlOK, FlState
    <2>. HIDE DEF f
    <2>. QED
      BY <1>2, <1>3, <1>4, <2>1
  <1>5. CASE cmd = "WREN"
    <2>1. Settle(s, [f EXCEPT !.we = TRUE]) /\ spent' = 0 /\ UNCHANGED mem
      BY <1>5 DEF xfer_idle
    <2>2. [f EXCEPT !.we = TRUE] = [f EXCEPT !.state = "IDLE", !.we = TRUE]
      <3>. HIDE DEF f
      <3>. QED
        BY <1>1 DEF FlOK, FlState
    <2>. HIDE DEF f
    <2>. QED
      BY <1>3, <2>1, <2>2 DEF FlStates
  <1>6. CASE cmd = "WRDI"
    <2>1. Settle(s, [f EXCEPT !.we = FALSE]) /\ UNCHANGED <<mem, spent>>
      BY <1>6 DEF xfer_idle
    <2>2. [f EXCEPT !.we = FALSE] = [f EXCEPT !.state = "IDLE", !.we = FALSE]
      <3>. HIDE DEF f
      <3>. QED
        BY <1>1 DEF FlOK, FlState
    <2>. HIDE DEF f
    <2>. QED
      BY <1>3, <2>1, <2>2 DEF FlStates
  <1>7. CASE cmd = "RDSR"
    <2>1. Settle(s, [f EXCEPT !.state = "STATUS_READ"]) /\ UNCHANGED <<mem, spent>>
      BY <1>7 DEF xfer_idle
    <2>. QED
      BY <1>4, <2>1 DEF FlStates
  <1>8. CASE cmd = "WRSR"
    <2>1. Settle(s, [f EXCEPT !.state = "STATUS_WRITE"]) /\ UNCHANGED <<mem, spent>>
      BY <1>8 DEF xfer_idle
    <2>. QED
      BY <1>4, <2>1 DEF FlStates
  <1>9. CASE cmd = "RDID"
    <2>1. Settle(s, [f EXCEPT !.state = "READ"]) /\ UNCHANGED <<mem, spent>>
      BY <1>9 DEF xfer_idle
    <2>. QED
      BY <1>4, <2>1 DEF FlStates
  <1>10. CASE cmd \in {"READ", "PP", "SE", "BE"}
    <2>1. Settle(s, [f EXCEPT !.state = "ADDR"]) /\ UNCHANGED <<mem, spent>>
      BY <1>10 DEF xfer_idle
    <2>. QED
      BY <1>4, <1>10, <2>1 DEF FlStates, Addressed
  <1>11. CASE cmd = "CE"
    <2>. DEFINE r == [s EXCEPT !.fl = f]
    <2>1. Erase(r, 0, FlashSize, wrote)
      BY <1>11 DEF xfer_idle
    <2>2. Good(r) /\ r.fl.state # "PP"
      <3>. HIDE DEF f
      <3>1. r.fl = f /\ r.file = s.file /\ r.failed = s.failed
        BY DEF Good
      <3>. QED
        BY <1>0, <1>1, <1>2, <3>1 DEF Good, Kept, Armed
    <2>3. 0 \in Nat /\ FlashSize \in Nat
      BY Geometry
    <2>. HIDE DEF r
    <2>. QED
      BY <1>0, <2>1, <2>2, <2>3, EraseKeeps
  <1>12. CASE cmd = "none"
    <2>1. Settle(s, f) /\ UNCHANGED <<mem, spent>>
      BY <1>12 DEF xfer_idle
    <2>2. f = [f EXCEPT !.state = "IDLE"]
      <3>. HIDE DEF f
      <3>. QED
        BY <1>1 DEF FlOK, FlState
    <2>. HIDE DEF f
    <2>. QED
      BY <1>4, <2>1, <2>2 DEF FlStates
  <1>. QED
    BY <1>5, <1>6, <1>7, <1>8, <1>9, <1>10, <1>11, <1>12 DEF Commands

\* A byte of the address.
LEMMA AddrKeeps ==
  ASSUME SpiFlashInv, NEW s, Good(s), NEW a \in Cells, NEW wrote \in Writes,
         xfer_addr(s, a, wrote), UNCHANGED <<csValid, pin>>
  PROVE  SpiFlashInv' /\ OneInstruction
  <1>. DEFINE f == [s.fl EXCEPT !.have = s.fl.have + 1]
              g == [f EXCEPT !.addr = a, !.page = AlignDown(a, PageSize)]
  <1>0. /\ s.fl.state = "ADDR" /\ FlOK(s.fl) /\ s.fl \in FlState /\ s.fl.have \in Nat
        /\ s.fl.have < AddrBytes /\ s.fl.cmd \in Addressed /\ instr \in Nat /\ AddrBytes \in Nat
    BY Geometry DEF xfer_addr, SpiFlashInv, Good, FlOK, FlState
  <1>1. /\ f \in FlState /\ f.state = "ADDR" /\ f.dirty = s.fl.dirty /\ f.we = s.fl.we
        /\ f.cmd = s.fl.cmd /\ f.page = s.fl.page /\ f.addr = s.fl.addr /\ f.have = s.fl.have + 1
    BY <1>0 DEF FlState
  <1>2. f.we => spent = 0
    BY <1>0, <1>1 DEF Good, Armed
  <1>3. CASE f.have < AddrBytes
    <2>1. Settle(s, f) /\ UNCHANGED <<mem, instr, spent>>
      BY <1>3 DEF xfer_addr
    <2>. HIDE DEF f
    <2>2. FlOK(f) /\ Armed(f, instr', spent')
      BY <1>0, <1>1, <1>2, <1>3, <2>1 DEF FlOK, Armed
    <2>. QED
      BY <1>0, <1>1, <2>1, <2>2, SettleKeeps
  <1>4. CASE ~(f.have < AddrBytes)
    <2>1. f.have = AddrBytes
      BY <1>0, <1>1, <1>4
    <2>2. AlignDown(a, PageSize) \in Cells /\ AlignDown(a, PageSize) \in Nat /\ a \in Nat
      <3>1. a \in Nat /\ AlignDown(a, PageSize) \in 0 .. a
        BY Geometry, AlignDownIs
      <3>. QED
        BY <3>1, Geometry DEF Cells
    <2>3. /\ g \in FlState /\ g.state = "ADDR" /\ g.dirty = s.fl.dirty /\ g.we = s.fl.we
          /\ g.cmd = s.fl.cmd /\ g.page = AlignDown(a, PageSize) /\ g.addr = a /\ g.have = AddrBytes
      <3>. HIDE DEF f
      <3>. QED
        BY <1>1, <2>1, <2>2 DEF FlState
    <2>4. UNCHANGED instr /\ f.cmd \in Addressed
      BY <1>0, <1>1, <1>4 DEF xfer_addr
    <2>5. ASSUME NEW st \in {"READ", "PP"}, st = "PP" => f.cmd = "PP",
                 Settle(s, [g EXCEPT !.state = st]), UNCHANGED <<mem, spent>>
          PROVE  SpiFlashInv' /\ OneInstruction
      <3>. DEFINE h == [g EXCEPT !.state = st]
      <3>. HIDE DEF g, f
      <3>1. /\ h \in FlState /\ h.state = st /\ h.dirty = g.dirty /\ h.we = g.we /\ h.cmd = g.cmd
            /\ h.page = g.page /\ h.addr = g.addr /\ h.have = g.have
        BY <2>3, <2>5 DEF FlState, FlStates
      <3>. HIDE DEF h
      <3>2. FlOK(h)
        BY <1>0, <1>1, <2>2, <2>3, <2>5, <3>1 DEF FlOK
      <3>3. Armed(h, instr', spent')
        BY <1>1, <1>2, <2>3, <2>5, <3>1 DEF Armed
      <3>4. instr' \in Nat /\ Settle(s, h)
        BY <1>0, <2>4, <2>5 DEF h
      <3>. QED
        BY <1>0, <2>3, <2>5, <3>1, <3>2, <3>3, <3>4, SettleKeeps
    <2>6. ASSUME NEW lo \in Nat, NEW n \in Nat, Erase([s EXCEPT !.fl = g], lo, n, wrote)
          PROVE  SpiFlashInv' /\ OneInstruction
      <3>. DEFINE k == [g EXCEPT !.state = "IDLE"]
                  r == [s EXCEPT !.fl = k]
                  q == [s EXCEPT !.fl = g]
      <3>. HIDE DEF g, f
      <3>1. /\ k \in FlState /\ k.state = "IDLE" /\ k.dirty = g.dirty /\ k.we = g.we /\ k.cmd = g.cmd
            /\ k.page = g.page /\ k.addr = g.addr /\ k.have = g.have
        BY <2>3 DEF FlState, FlStates
      <3>2. FlOK(k)
        <4>. HIDE DEF k
        <4>. QED
          BY <1>0, <2>2, <2>3, <3>1 DEF FlOK
      <3>3. /\ [g EXCEPT !.we = FALSE, !.state = "IDLE"] = [k EXCEPT !.we = FALSE, !.state = "IDLE"]
            /\ [g EXCEPT !.state = "IDLE"] = [k EXCEPT !.state = "IDLE"]
        BY <2>3 DEF FlState
      <3>. HIDE DEF k
      <3>4. /\ r.fl = k /\ r.file = s.file /\ r.failed = s.failed
            /\ q.fl = g /\ q.file = s.file /\ q.failed = s.failed
            /\ r = [fl |-> r.fl, file |-> r.file, failed |-> r.failed]
        BY DEF Good
      <3>. HIDE DEF r, q
      <3>5. Good(r) /\ r.fl.state # "PP"
        BY <1>0, <1>1, <1>2, <2>3, <3>1, <3>2, <3>4 DEF Good, Kept, Armed
      <3>6. Erase(r, lo, n, wrote)
        <4>1. Erase(q, lo, n, wrote)
          BY <2>6 DEF q
        <4>. QED
          BY <3>1, <3>3, <3>4, <4>1 DEF Erase, Settle
      <3>. QED
        BY <1>0, <2>4, <3>5, <3>6, EraseKeeps
    <2>7. CASE f.cmd = "READ"
      <3>1. Settle(s, [g EXCEPT !.state = "READ"]) /\ UNCHANGED <<mem, spent>>
        BY <1>4, <2>7 DEF xfer_addr
      <3>. HIDE DEF g, f
      <3>. QED
        BY <2>5, <3>1
    <2>8. CASE f.cmd = "PP"
      <3>1. Settle(s, [g EXCEPT !.state = "PP"]) /\ UNCHANGED <<mem, spent>>
        BY <1>4, <2>8 DEF xfer_addr
      <3>. HIDE DEF g, f
      <3>. QED
        BY <2>5, <2>8, <3>1
    <2>9. CASE f.cmd = "SE"
      <3>1. Erase([s EXCEPT !.fl = g], AlignDown(a, SectorSize), SectorSize, wrote)
        BY <1>4, <2>9 DEF xfer_addr
      <3>2. AlignDown(a, SectorSize) \in Nat /\ SectorSize \in Nat
        BY <2>2, Geometry, AlignDownIs
      <3>. HIDE DEF g, f
      <3>. QED
        BY <2>6, <3>1, <3>2
    <2>10. CASE f.cmd = "BE"
      <3>1. Erase([s EXCEPT !.fl = g], AlignDown(a, BlockSize), BlockSize, wrote)
        BY <1>4, <2>10 DEF xfer_addr
      <3>2. AlignDown(a, BlockSize) \in Nat /\ BlockSize \in Nat
        BY <2>2, Geometry, AlignDownIs
      <3>. HIDE DEF g, f
      <3>. QED
        BY <2>6, <3>1, <3>2
    <2>. HIDE DEF f, g
    <2>. QED
      BY <2>4, <2>7, <2>8, <2>9, <2>10 DEF Addressed
  <1>. QED
    BY <1>3, <1>4

\* A byte read, and a byte of the status register.
LEMMA ReadKeeps ==
  ASSUME SpiFlashInv, NEW s, Good(s), xfer_read(s), UNCHANGED <<csValid, pin>>
  PROVE  SpiFlashInv' /\ OneInstruction
  <1>. DEFINE a == (s.fl.addr + 1) % FlashSize
              f == [s.fl EXCEPT !.addr = a]
  <1>0. /\ s.fl.state = "READ" /\ FlOK(s.fl) /\ s.fl \in FlState /\ s.fl.addr \in Nat /\ instr \in Nat
        /\ s.fl.page \in Cells /\ s.fl.have \in 0 .. AddrBytes
    BY DEF xfer_read, SpiFlashInv, Good, FlOK, FlState
  <1>1. Settle(s, f) /\ UNCHANGED <<mem, instr, spent>>
    BY DEF xfer_read
  <1>2. a \in Cells /\ a \in Nat
    <2>1. s.fl.addr + 1 \in Nat /\ FlashSize \in Nat /\ FlashSize > 0
      BY <1>0, Geometry
    <2>2. a \in 0 .. FlashSize - 1
      BY <2>1, DivMod
    <2>. QED
      BY <2>2, Geometry DEF Cells
  <1>. HIDE DEF a
  <1>3. /\ f \in FlState /\ f.state = "READ" /\ f.dirty = s.fl.dirty /\ f.we = s.fl.we
        /\ f.page = s.fl.page /\ f.addr = a /\ f.have = s.fl.have
    BY <1>0, <1>2 DEF FlState
  <1>. HIDE DEF f
  <1>4. FlOK(f)
    BY <1>0, <1>2, <1>3 DEF FlOK
  <1>5. Armed(f, instr', spent')
    BY <1>0, <1>1, <1>3 DEF Good, Armed
  <1>. QED
    BY <1>0, <1>1, <1>3, <1>4, <1>5, SettleKeeps

\* Reading or writing the status register is part of its instruction.
LEMMA StatusKeeps ==
  ASSUME SpiFlashInv, NEW s, Good(s), NEW bp \in BOOLEAN, xfer_status(s, bp), UNCHANGED <<csValid, pin>>
  PROVE  SpiFlashInv' /\ OneInstruction
  <1>0. /\ s.fl.state \in {"STATUS_READ", "STATUS_WRITE"} /\ FlOK(s.fl) /\ s.fl \in FlState
        /\ instr \in Nat /\ UNCHANGED <<mem, instr, spent>> /\ Armed(s.fl, instr, spent)
    BY DEF xfer_status, SpiFlashInv, Good, FlOK
  <1>1. CASE s.fl.state = "STATUS_READ"
    <2>1. Settle(s, s.fl)
      BY <1>1 DEF xfer_status
    <2>2. Armed(s.fl, instr', spent')
      BY <1>0 DEF Armed
    <2>. QED
      BY <1>0, <2>1, <2>2, SettleKeeps
  <1>2. CASE s.fl.state = "STATUS_WRITE"
    <2>. DEFINE b == IF s.fl.we THEN bp ELSE s.fl.bp
                f == [s.fl EXCEPT !.state = "IDLE", !.we = FALSE, !.bp = b]
    <2>1. Settle(s, f)
      BY <1>2 DEF xfer_status
    <2>2. b \in BOOLEAN
      BY <1>0 DEF FlState
    <2>. HIDE DEF b
    <2>3. /\ f \in FlState /\ f.state = "IDLE" /\ f.dirty = s.fl.dirty /\ ~f.we
          /\ f.page = s.fl.page /\ f.addr = s.fl.addr /\ f.have = s.fl.have
      BY <1>0, <2>2 DEF FlState, FlStates
    <2>. HIDE DEF f
    <2>4. FlOK(f) /\ Armed(f, instr', spent')
      BY <1>0, <2>3 DEF FlOK, Armed
    <2>. QED
      BY <1>0, <1>2, <2>1, <2>3, <2>4, SettleKeeps
  <1>. QED
    BY <1>0, <1>1, <1>2

\* A byte programmed: the array changes only under the write enable latch, and is marked dirty.
LEMMA PpKeeps ==
  ASSUME SpiFlashInv, NEW s, Good(s), NEW byte \in BOOLEAN, xfer_pp(s, byte), UNCHANGED <<csValid, pin>>
  PROVE  SpiFlashInv' /\ OneInstruction
  <1>. DEFINE c == s.fl.addr % FlashSize
              m == [mem EXCEPT ![c] = mem[c] /\ byte]
              w == IF s.fl.we THEN m ELSE mem
              nx == s.fl.addr + 1
              a == IF AlignDown(nx, PageSize) = s.fl.page THEN nx ELSE s.fl.page
              d == s.fl.dirty \/ w # mem
              f == [s.fl EXCEPT !.dirty = d, !.addr = a]
  <1>0. /\ s.fl.state = "PP" /\ FlOK(s.fl) /\ s.fl \in FlState /\ s.fl.addr \in Nat /\ instr \in Nat
        /\ s.fl.page \in Cells /\ s.fl.have \in 0 .. AddrBytes /\ s.fl.cmd = "PP" /\ mem \in Arrays
        /\ s.file \in Images /\ s.failed \in BOOLEAN /\ csValid \in BOOLEAN /\ pin \in 0 .. 1
    BY DEF xfer_pp, SpiFlashInv, Good, FlOK, FlState
  <1>1. /\ mem' = w /\ fl' = f /\ file' = s.file /\ failed' = s.failed /\ instr' = instr
        /\ spent' = IF w # mem THEN instr ELSE spent
    BY DEF xfer_pp, Settle
  <1>2. w \in Arrays /\ (~s.fl.we => w = mem)
    BY <1>0 DEF Arrays
  <1>3. a \in Cells \cup s.fl.page .. s.fl.page + PageSize - 1 /\ a \in Nat
    <2>1. nx \in Nat /\ PageSize \in Nat \ {0} /\ s.fl.page \in Nat
      <3>1. s.fl.addr \in Nat /\ s.fl.page \in Cells
        BY <1>0
      <3>2. s.fl.addr + 1 \in Nat
        BY <3>1
      <3>3. PageSize \in Nat \ {0} /\ Cells \subseteq Nat
        BY Geometry
      <3>. QED
        BY <3>1, <3>2, <3>3
    <2>2. nx \in AlignDown(nx, PageSize) .. AlignDown(nx, PageSize) + PageSize - 1
      BY <2>1, AlignDownIs
    <2>. HIDE DEF nx
    <2>. QED
      BY <1>0, <2>1, <2>2
  <1>4. d \in BOOLEAN /\ (~d => ~s.fl.dirty /\ w = mem)
    OBVIOUS
  <1>. HIDE DEF a, d, w
  <1>5. /\ f \in FlState /\ f.state = "PP" /\ f.cmd = "PP" /\ f.dirty = d /\ f.we = s.fl.we
        /\ f.page = s.fl.page /\ f.addr = a /\ f.have = s.fl.have
    BY <1>0, <1>3, <1>4 DEF FlState
  <1>. HIDE DEF f
  <1>6. FlOK(f)
    BY <1>0, <1>3, <1>5 DEF FlOK
  <1>7. Kept(f, w, s.file, s.failed)
    BY <1>4, <1>5 DEF Good, Kept
  <1>8. s.fl.we => spent \in {0, instr}
    BY DEF Good, Armed
  <1>9. Armed(f, instr, spent')
    BY <1>0, <1>1, <1>5, <1>8 DEF Armed
  <1>10. SpiFlashInv'
    <2>1. (Kept(fl, mem, file, failed) /\ FlOK(fl) /\ Armed(fl, instr, spent))'
      BY <1>1, <1>6, <1>7, <1>9 DEF Kept, FlOK, Armed
    <2>. QED
      BY <1>0, <1>1, <1>2, <2>1 DEF SpiFlashInv
  <1>. QED
    BY <1>1, <1>2, <1>8, <1>10 DEF OneInstruction

\* A start of the emulator: the array is what the file holds, and what it lacks is erased
\* and written back.
LEMMA LoadKeeps ==
  ASSUME SpiFlashInv, NEW content \in Images, NEW wrote \in Writes, spiflash_load(content, wrote),
         instr' = 0, spent' = 0, pin' = 1, UNCHANGED csValid
  PROVE  SpiFlashInv' /\ OneInstruction
  <1>. DEFINE m == [x \in Cells |-> IF x < Len(content) THEN content[x + 1] ELSE TRUE]
              g == [Fresh EXCEPT !.dirty = TRUE]
              s == spiflash_sync(g, m, content, wrote)
  <1>0. content \in Seq(BOOLEAN) /\ Len(content) \in Nat /\ Len(content) <= FlashSize /\ FlashSize \in Nat
    BY Geometry DEF Images
  <1>1. /\ mem' = m
        /\ Len(content) < FlashSize => fl' = s.fl /\ file' = s.file /\ failed' = s.failed
        /\ ~(Len(content) < FlashSize) => fl' = Fresh /\ file' = content /\ failed' = FALSE
    BY DEF spiflash_load
  <1>2. m \in Arrays
    <2>1. ASSUME NEW x \in Cells
          PROVE  (IF x < Len(content) THEN content[x + 1] ELSE TRUE) \in BOOLEAN
      <3>1. x \in Nat
        BY Geometry
      <3>2. x < Len(content) => content[x + 1] \in BOOLEAN
        BY <1>0, <3>1, ElementOfSeq
      <3>. QED
        BY <3>2
    <2>. QED
      BY <2>1 DEF Arrays
  <1>3. FlOK(Fresh) /\ Fresh.dirty = FALSE /\ Fresh.we = FALSE
    BY Geometry DEF FlOK, FlState, FlStates, Fresh, Commands
  <1>4. FlOK(g) /\ g.dirty = TRUE /\ g.we = FALSE
    BY <1>3 DEF FlOK, FlState
  <1>5. ~(Len(content) < FlashSize) => content = Contents(m)
    <2>. SUFFICES ASSUME ~(Len(content) < FlashSize)
                  PROVE  content = Contents(m)
      OBVIOUS
    <2>1. Len(content) = FlashSize
      BY <1>0
    <2>2. Contents(m) \in Seq(BOOLEAN) /\ Len(Contents(m)) = FlashSize
      BY <1>2, ContentsType
    <2>3. ASSUME NEW k \in 1 .. FlashSize
          PROVE  Contents(m)[k] = content[k]
      <3>1. k - 1 \in Cells /\ k - 1 < Len(content) /\ (k - 1) + 1 = k
        BY <1>0, <2>1 DEF Cells
      <3>2. Contents(m)[k] = m[k - 1]
        BY DEF Contents
      <3>3. m[k - 1] = content[(k - 1) + 1]
        BY <3>1
      <3>. HIDE DEF m
      <3>. QED
        BY <3>1, <3>2, <3>3
    <2>. HIDE DEF m
    <2>. QED
      BY <1>0, <2>1, <2>2, <2>3, SeqEqual
  <1>. HIDE DEF m, g
  <1>6. FlOK(s.fl) /\ s.file \in Images /\ s.failed \in BOOLEAN /\ s.fl.we = FALSE
        /\ (~s.failed => ~s.fl.dirty /\ s.file = Contents(m))
    <2>1. failed \in BOOLEAN
      BY DEF SpiFlashInv
    <2>. QED
      BY <1>2, <1>4, <2>1, SyncIs
  <1>. HIDE DEF s
  <1>7. /\ FlOK(fl') /\ file' \in Images /\ failed' \in BOOLEAN /\ fl'.we = FALSE
        /\ ~failed' => ~fl'.dirty /\ file' = Contents(m)
    <2>1. CASE Len(content) < FlashSize
      BY <1>1, <1>6, <2>1
    <2>2. CASE ~(Len(content) < FlashSize)
      BY <1>1, <1>3, <1>5, <2>2
    <2>. QED
      BY <2>1, <2>2
  <1>8. (FlOK(fl) /\ Kept(fl, mem, file, failed) /\ Armed(fl, instr, spent))'
    BY <1>1, <1>7 DEF FlOK, Kept, Armed
  <1>9. csValid' \in BOOLEAN /\ pin' \in 0 .. 1 /\ instr' \in Nat /\ instr' = 0
    BY DEF SpiFlashInv
  <1>. QED
    BY <1>1, <1>2, <1>7, <1>8, <1>9 DEF SpiFlashInv, OneInstruction

\* Every step keeps the invariant, and lets a write enable latch cover one instruction.
LEMMA SpiFlashStep ==
  ASSUME SpiFlashInv, SpiFlashNext
  PROVE  SpiFlashInv' /\ OneInstruction
  <1>0. /\ FlOK(fl) /\ mem \in Arrays /\ file \in Images /\ failed \in BOOLEAN
        /\ pin \in 0 .. 1 /\ instr \in Nat /\ Kept(fl, mem, file, failed) /\ Armed(fl, instr, spent)
    BY DEF SpiFlashInv
  <1>1. ASSUME NEW wrote \in Writes, spiflash_bus_xfer(wrote)
        PROVE  SpiFlashInv' /\ OneInstruction
    <2>. DEFINE s == spiflash_sample_cs(wrote)
    <2>1. Good(s)
      BY SampleIs
    <2>2. /\ UNCHANGED <<csValid, pin>>
          /\ \/ Settle(s, s.fl) /\ UNCHANGED <<mem, instr, spent>>
             \/ mm_spiflash_xfer(s, wrote)
      BY <1>1 DEF spiflash_bus_xfer
    <2>. HIDE DEF s
    <2>3. CASE Settle(s, s.fl) /\ UNCHANGED <<mem, instr, spent>>
      <3>1. FlOK(s.fl) /\ Armed(s.fl, instr', spent')
        BY <2>1, <2>3 DEF Good, Armed
      <3>. QED
        BY <1>0, <2>1, <2>2, <2>3, <3>1, SettleKeeps
    <2>4. CASE mm_spiflash_xfer(s, wrote)
      BY <2>1, <2>2, <2>4, IdleKeeps, AddrKeeps, ReadKeeps, PpKeeps, StatusKeeps DEF mm_spiflash_xfer
    <2>. QED
      BY <2>2, <2>3, <2>4
  <1>2. ASSUME NEW wrote \in Writes, spiflash_bus_end(wrote)
        PROVE  SpiFlashInv' /\ OneInstruction
    <2>. DEFINE s == mm_spiflash_cs_deassert(fl, wrote)
    <2>1. Good(s)
      BY <1>0, DeassertIs
    <2>2. Settle(s, s.fl) /\ UNCHANGED <<mem, csValid, pin, instr, spent>>
      BY <1>2 DEF spiflash_bus_end
    <2>. HIDE DEF s
    <2>3. FlOK(s.fl) /\ Armed(s.fl, instr', spent')
      BY <2>1, <2>2 DEF Good, Armed
    <2>. QED
      BY <1>0, <2>1, <2>2, <2>3, SettleKeeps
  <1>3. CASE DrivePin
    <2>1. UNCHANGED <<fl, mem, file, csValid, failed, instr, spent>> /\ pin' \in 0 .. 1
      BY <1>0, <1>3 DEF DrivePin
    <2>2. (FlOK(fl) /\ Kept(fl, mem, file, failed) /\ Armed(fl, instr, spent))'
      BY <1>0, <2>1 DEF FlOK, Kept, Armed
    <2>. QED
      BY <1>0, <2>1, <2>2 DEF SpiFlashInv, OneInstruction
  <1>4. ASSUME NEW wrote \in Writes, Restart(wrote)
        PROVE  SpiFlashInv' /\ OneInstruction
    <2>1. spiflash_sync(fl, mem, file, wrote).file \in Images
      BY <1>0, SyncIs DEF Kept
    <2>. QED
      BY <1>4, <2>1, LoadKeeps DEF Restart
  <1>5. CASE Kill
    <2>. PICK again \in Writes :
           \/ spiflash_load(file, again)
           \/ fl.dirty /\ \E n \in 0 .. FlashSize - 1 : spiflash_load(SubSeq(Contents(mem), 1, n), again)
      BY <1>5 DEF Kill
    <2>1. CASE spiflash_load(file, again)
      BY <1>0, <1>5, <2>1, LoadKeeps DEF Kill
    <2>2. ASSUME NEW n \in 0 .. FlashSize - 1, spiflash_load(SubSeq(Contents(mem), 1, n), again)
          PROVE  SpiFlashInv' /\ OneInstruction
      <3>1. n \in 0 .. FlashSize
        BY Geometry
      <3>2. SubSeq(Contents(mem), 1, n) \in Images
        BY <1>0, <3>1, ContentsType
      <3>. QED
        BY <1>5, <2>2, <3>2, LoadKeeps DEF Kill
    <2>. QED
      BY <2>1, <2>2
  <1>. QED
    BY <1>1, <1>2, <1>3, <1>4, <1>5 DEF SpiFlashNext

\* The flash starts as its file says.
LEMMA SpiFlashInvInit == SpiFlashAtReset => SpiFlashInv
  <1>. SUFFICES ASSUME SpiFlashAtReset
                PROVE  SpiFlashInv
    OBVIOUS
  <1>1. FlOK(Fresh) /\ Fresh.dirty = FALSE /\ Fresh.we = FALSE
    BY Geometry DEF FlOK, FlState, FlStates, Fresh, Commands
  <1>2. mem \in Arrays /\ fl = Fresh /\ file = Contents(mem)
    BY DEF SpiFlashAtReset, Arrays
  <1>3. Kept(fl, mem, file, failed) /\ Armed(fl, instr, spent)
    BY <1>1, <1>2 DEF Kept, Armed
  <1>4. failed \in BOOLEAN /\ csValid \in BOOLEAN /\ file \in Images
    BY <1>2, ContentsType DEF SpiFlashAtReset
  <1>5. pin \in 0 .. 1 /\ instr \in Nat
    BY DEF SpiFlashAtReset
  <1>. QED
    BY <1>1, <1>2, <1>3, <1>4, <1>5 DEF SpiFlashInv

\* The flash keeps the invariant.
LEMMA SpiFlashInvariant == SpiFlashSpec => []SpiFlashInv
  <1>1. SpiFlashInv /\ [SpiFlashNext]_spiflashVars => SpiFlashInv'
    <2>1. SpiFlashInv /\ UNCHANGED spiflashVars => SpiFlashInv'
      BY DEF SpiFlashInv, spiflashVars, FlOK, Kept, Armed
    <2>. QED
      BY <2>1, SpiFlashStep
  <1>. QED
    BY <1>1, SpiFlashInvInit, PTL DEF SpiFlashSpec

\* What the invariant says in the words of the module.
LEMMA SpiFlashInvType == SpiFlashInv => SpiFlashTypeOK
  BY Geometry DEF SpiFlashInv, Images, FlOK, FlState, FlStates, Arrays, SpiFlashTypeOK

\* The decoder stays in its states with its address inside the array or the page, for
\* every geometry of the chip.
THEOREM SpiFlashTypeCorrect == SpiFlashSpec => []SpiFlashTypeOK
  BY SpiFlashInvType, SpiFlashInvariant, PTL

\* The host file holds the array outside a page program, unless the last attempt to write
\* it failed or was cut short (spiflash_sync, spiflash_load): for every geometry, and across restarts and
\* kills of the emulator.
THEOREM FileCorrect == SpiFlashSpec => []FileFollowsArray
  <1>1. SpiFlashInv => FileFollowsArray
    BY DEF SpiFlashInv, Kept, FileFollowsArray
  <1>. QED
    BY <1>1, SpiFlashInvariant, PTL

\* One WREN covers one program or erase instruction, for every geometry and any number of
\* instructions (write_enable in mm_spiflash_xfer and mm_spiflash_cs_deassert).
THEOREM WrenCorrect == SpiFlashSpec => WrenCoversOneInstruction
  <1>1. SpiFlashInv /\ [SpiFlashNext]_spiflashVars => [OneInstruction]_spiflashVars
    BY SpiFlashStep
  <1>. QED
    BY <1>1, SpiFlashInvariant, PTL DEF SpiFlashSpec, WrenCoversOneInstruction, OneInstruction

-----------------------------------------------------------------------------
(* The TPM: its buffers, its frames and its non-volatile store. *)

\* The part of the type that arithmetic on the buffers needs.
Lengths == cmdLen \in Nat /\ rspLen \in Nat /\ rspRead \in Nat

TisInv == Lengths /\ AnsweredCommandIsGone

\* The sizes of the buffers are numbers, and a response has a byte.
LEMMA BoundsAreNat ==
  /\ RspMax \in Nat /\ RspMax >= 1 /\ CmdMax \in Nat
  BY TpmBounds

\* A command that is cleared leaves both buffers empty.
LEMMA ClearKeepsInv == ClearCommand => TisInv'
  BY DEF ClearCommand, TisInv, Lengths, AnsweredCommandIsGone

\* A step that leaves the buffers alone keeps the invariant.
LEMMA QuietKeepsInv ==
  ASSUME TisInv, UNCHANGED <<cmdLen, rspLen, rspRead>>
  PROVE  TisInv'
  BY DEF TisInv, Lengths, AnsweredCommandIsGone

\* tpmGo leaves a response of at least one byte, none of it read, and keeps
\* the command it answers.
LEMMA ProcessKeepsInv ==
  ASSUME TisInv, NEW n \in {1, RspMax + 1}, tpm_backend_process(cmdLen, n), cmdLen' = cmdLen
  PROVE  TisInv'
  <1>1. CASE cmdLen = 0
    BY <1>1, QuietKeepsInv DEF tpm_backend_process
  <1>2. CASE cmdLen # 0
    <2>1. rspLen' \in Nat /\ rspLen' >= 1 /\ rspRead' = 0
      BY <1>2, BoundsAreNat DEF tpm_backend_process
    <2>2. cmdLen' \in Nat /\ cmdLen' > 0
      BY <1>2 DEF TisInv, Lengths
    <2>. QED
      BY <2>1, <2>2 DEF TisInv, Lengths, AnsweredCommandIsGone
  <1>. QED
    BY <1>1, <1>2

\* Reading a register takes at most a byte of the response.
LEMMA ReadKeepsInv ==
  ASSUME TisInv, tpm_read_reg(frame.addr)
  PROVE  TisInv'
  <1>1. CASE ~(frame.addr = FIFO /\ rspRead < rspLen)
    BY <1>1, QuietKeepsInv DEF tpm_read_reg
  <1>2. CASE frame.addr = FIFO /\ rspRead < rspLen
    <2>1. CASE rspRead + 1 >= rspLen
      BY <1>2, <2>1, ClearKeepsInv DEF tpm_read_reg
    <2>2. CASE ~(rspRead + 1 >= rspLen)
      BY <1>2, <2>2 DEF tpm_read_reg, TisInv, Lengths, AnsweredCommandIsGone
    <2>. QED
      BY <2>1, <2>2
  <1>. QED
    BY <1>1, <1>2

\* Writing a register adds to the command, runs it, or clears it.
LEMMA WriteKeepsInv ==
  ASSUME TisInv, tpm_write_reg(frame.addr)
  PROVE  TisInv'
  <1>1. CASE frame.addr = STS
    <2>1. PICK rdy \in BOOLEAN, go \in BOOLEAN, n \in {1, RspMax + 1} :
             tpm_write_sts(rdy, go, n)
      <3>1. STS # ACCESS /\ STS # FIFO
        BY DEF STS, ACCESS, FIFO
      <3>. QED
        BY <1>1, <3>1, Zenon DEF tpm_write_reg
    <2>2. CASE rdy
      BY <2>1, <2>2, ClearKeepsInv DEF tpm_write_sts
    <2>3. CASE ~rdy /\ go
      BY <2>1, <2>3, ProcessKeepsInv DEF tpm_write_sts
    <2>4. CASE ~rdy /\ ~go
      BY <2>1, <2>4, QuietKeepsInv DEF tpm_write_sts
    <2>. QED
      BY <2>2, <2>3, <2>4
  <1>2. CASE frame.addr = FIFO
    <2>1. PICK size \in {0, CmdMax} : tpm_write_fifo(size)
      BY <1>2 DEF tpm_write_reg, STS, ACCESS, FIFO
    <2>2. cmdLen' \in {cmdLen, cmdLen + 1} /\ UNCHANGED <<rspLen, rspRead>>
      BY <2>1 DEF tpm_write_fifo
    <2>. QED
      BY <2>2 DEF TisInv, Lengths, AnsweredCommandIsGone
  <1>3. CASE frame.addr \notin {STS, FIFO}
    BY <1>3, QuietKeepsInv DEF tpm_write_reg
  <1>. QED
    BY <1>1, <1>2, <1>3

\* A response that has been read to its end takes its command with it: no byte
\* of the next command is appended to one that was answered, for any sizes of
\* the buffers.
THEOREM AnsweredCommandIsGoneCorrect == TpmSpec => []AnsweredCommandIsGone
  <1>1. TpmAtReset => TisInv
    BY DEF TpmAtReset, TisInv, Lengths, AnsweredCommandIsGone
  <1>2. TisInv /\ [TpmNext]_tpmVars => TisInv'
    <2>. SUFFICES ASSUME TisInv, [TpmNext]_tpmVars
                  PROVE  TisInv'
      OBVIOUS
    <2>1. CASE xfer_header
      BY <2>1, QuietKeepsInv DEF xfer_header
    <2>2. CASE xfer_wait
      BY <2>2, QuietKeepsInv DEF xfer_wait
    <2>3. CASE xfer_data
      BY <2>3, ReadKeepsInv, WriteKeepsInv DEF xfer_data
    <2>4. CASE tpm_reset
      BY <2>4, ClearKeepsInv DEF tpm_reset
    <2>5. CASE UNCHANGED tisVars
      BY <2>5, QuietKeepsInv DEF tisVars
    <2>. QED
      BY <2>1, <2>2, <2>3, <2>4, <2>5 DEF TpmNext, TisNext, NvNext, tpm_spi_xfer, tpmVars
  <1>3. TisInv => AnsweredCommandIsGone
    BY DEF TisInv
  <1>. QED
    BY <1>1, <1>2, <1>3, PTL DEF TpmSpec

-----------------------------------------------------------------------------

\* An entry without a name.
Nameless == [name : {""}, data : Versions]

\* What makes the backing files the only truth: every entry of the store has
\* lost its name (tpm_nvram_storedata empties the entry after naming it), so no
\* load is answered from memory.
NvInv ==
  /\ entries \in [1 .. Slots -> Nameless]
  /\ files \in [Names -> Versions \cup {Torn}] /\ stored \in [Names -> Versions] /\ torn \subseteq Names
  /\ nvFile => \A n \in Names : IF n \in torn THEN files[n] \in {Torn, 0} ELSE files[n] = stored[n]

\* A freed entry has no name, and storing gives it data only.
LEMMA FreeEntryTyped ==
  /\ tpm_nv_free_entry \in Nameless
  /\ \A v \in Versions : [tpm_nv_free_entry EXCEPT !.data = v] \in Nameless
  <1>1. 0 \in Versions
    BY DEF Versions
  <1>2. tpm_nv_free_entry \in Nameless
    BY <1>1 DEF tpm_nv_free_entry, Nameless
  <1>3. ASSUME NEW v \in Versions
        PROVE  [tpm_nv_free_entry EXCEPT !.data = v] \in Nameless
    BY <1>2 DEF Nameless
  <1>. QED
    BY <1>2, <1>3

\* No entry has the name of an object: storedata clears it with the entry.
LEMMA NothingIsFound ==
  ASSUME NvInv, NEW n \in Names
  PROVE  Find(n) = {}
  BY NamesAssumption DEF NvInv, Nameless, Find

\* An entry is replaced, at an index of the table or outside of it.
LEMMA EntriesTyped ==
  ASSUME NvInv, NEW k, NEW e \in Nameless
  PROVE  [entries EXCEPT ![k] = e] \in [1 .. Slots -> Nameless]
  BY DEF NvInv

\* Storing an object rewrites the file, or leaves it torn.
LEMMA StoreKeepsInv ==
  ASSUME NvInv, NEW n \in Names, NEW v \in Versions, NEW opens \in BOOLEAN, NEW written,
         tpm_nvram_storedata(n, v, opens, written)
  PROVE  NvInv'
  <1>. DEFINE done == ~nvFile \/ (opens /\ written = v)
  <1>0. written \in {v, Torn, 0} /\ 0 \in Versions /\ nvFile' = nvFile
    BY DEF tpm_nvram_storedata, Versions
  <1>1. entries' \in [1 .. Slots -> Nameless]
    BY FreeEntryTyped, EntriesTyped DEF tpm_nvram_storedata
  <1>2. /\ files' = IF nvFile /\ opens THEN [files EXCEPT ![n] = written] ELSE files
        /\ stored' = IF done THEN [stored EXCEPT ![n] = v] ELSE stored
        /\ torn' = CASE done -> torn \ {n}
                     [] ~done /\ opens -> torn \cup {n}
                     [] OTHER -> torn
    BY DEF tpm_nvram_storedata
  <1>3. /\ files \in [Names -> Versions \cup {Torn}] /\ stored \in [Names -> Versions] /\ torn \subseteq Names
        /\ nvFile => \A k \in Names : IF k \in torn THEN files[k] \in {Torn, 0} ELSE files[k] = stored[k]
    BY DEF NvInv
  <1>4. CASE done
    <2>1. torn' = torn \ {n} /\ stored' = [stored EXCEPT ![n] = v] /\ (nvFile => opens /\ written = v)
      BY <1>2, <1>4
    <2>. HIDE DEF done
    <2>. QED
      BY <1>0, <1>1, <1>2, <1>3, <2>1 DEF NvInv
  <1>5. CASE ~done /\ opens
    <2>1. torn' = torn \cup {n} /\ stored' = stored /\ nvFile /\ written \in {Torn, 0}
      BY <1>0, <1>2, <1>5
    <2>. HIDE DEF done
    <2>. QED
      BY <1>0, <1>1, <1>2, <1>3, <1>5, <2>1 DEF NvInv
  <1>6. CASE ~done /\ ~opens
    <2>1. torn' = torn /\ stored' = stored /\ files' = files
      BY <1>2, <1>6
    <2>. HIDE DEF done
    <2>. QED
      BY <1>0, <1>1, <1>3, <2>1 DEF NvInv
  <1>. QED
    BY <1>4, <1>5, <1>6

\* Deleting an object removes its file, unless a missing entry is an error.
LEMMA DeleteKeepsInv ==
  ASSUME NvInv, NEW n \in Names, NEW mustExist \in BOOLEAN,
         tpm_nvram_deletename(n, mustExist)
  PROVE  NvInv'
  <1>. DEFINE refused == mustExist /\ Find(n) = {}
  <1>1. entries' = entries
    BY NothingIsFound DEF tpm_nvram_deletename
  <1>2. /\ files' = IF nvFile /\ ~refused THEN [files EXCEPT ![n] = 0] ELSE files
        /\ stored' = IF refused THEN stored ELSE [stored EXCEPT ![n] = 0]
        /\ torn' = IF refused THEN torn ELSE torn \ {n}
        /\ nvFile' = nvFile /\ 0 \in Versions
    BY DEF tpm_nvram_deletename, Versions
  <1>. HIDE DEF refused
  <1>3. /\ files \in [Names -> Versions \cup {Torn}] /\ stored \in [Names -> Versions] /\ torn \subseteq Names
        /\ nvFile => \A k \in Names : IF k \in torn THEN files[k] \in {Torn, 0} ELSE files[k] = stored[k]
        /\ entries' \in [1 .. Slots -> Nameless]
    BY <1>1 DEF NvInv
  <1>4. CASE refused
    BY <1>2, <1>3, <1>4 DEF NvInv
  <1>5. CASE ~refused
    <2>1. stored' = [stored EXCEPT ![n] = 0] /\ torn' = torn \ {n}
      BY <1>2, <1>5
    <2>2. files' = IF nvFile THEN [files EXCEPT ![n] = 0] ELSE files
      BY <1>2, <1>5
    <2>. QED
      BY <1>2, <1>3, <2>1, <2>2 DEF NvInv
  <1>. QED
    BY <1>4, <1>5

\* With a backing file, what is loaded for a name is what was last stored for
\* it, whatever is deleted, fails to open or is restarted in between, and after a
\* store cut short never an older version (tpm_nvram_storedata), for any names and
\* any number of entries.
THEOREM NvFileHoldsLastStoreCorrect == TpmSpec => []NvFileHoldsLastStore
  <1>1. TpmAtReset => NvInv
    BY FreeEntryTyped DEF TpmAtReset, NvInv, Versions
  <1>2. NvInv /\ [TpmNext]_tpmVars => NvInv'
    <2>. SUFFICES ASSUME NvInv, [TpmNext]_tpmVars
                  PROVE  NvInv'
      OBVIOUS
    <2>1. CASE UNCHANGED nvVars
      BY <2>1 DEF nvVars, NvInv
    <2>2. ASSUME NEW n \in Names, NEW v \in Versions, NEW opens \in BOOLEAN, NEW written,
                 tpm_nvram_storedata(n, v, opens, written)
          PROVE  NvInv'
      BY <2>2, StoreKeepsInv
    <2>3. ASSUME NEW n \in Names, NEW mustExist \in BOOLEAN,
                 tpm_nvram_deletename(n, mustExist)
          PROVE  NvInv'
      BY <2>3, DeleteKeepsInv
    <2>4. CASE NvRestart
      BY <2>4, FreeEntryTyped DEF NvRestart, NvInv, Versions
    <2>. QED
      BY <2>1, <2>2, <2>3, <2>4 DEF TpmNext, TisNext, NvNext, NvCallback, tpmVars
  <1>3. NvInv => NvFileHoldsLastStore
    <2>. SUFFICES ASSUME NvInv, nvFile, NEW n \in Names
                  PROVE  IF n \in torn THEN tpm_nvram_loaddata(n) \in {Torn, 0}
                                       ELSE tpm_nvram_loaddata(n) = stored[n]
      BY DEF NvFileHoldsLastStore
    <2>1. tpm_nvram_loaddata(n) = files[n]
      BY NothingIsFound DEF tpm_nvram_loaddata
    <2>. QED
      BY <2>1 DEF NvInv
  <1>. QED
    BY <1>1, <1>2, <1>3, PTL DEF TpmSpec

-----------------------------------------------------------------------------

\* A frame has data bytes left once its header is complete.
Frames == [have : 0 .. HeaderBytes, read : BOOLEAN, len : 0 .. MaxLen, addr : Int, wait : BOOLEAN]
FrameOK(f) == f \in Frames /\ (f.have = HeaderBytes => f.len >= 1)
TpmTyped ==
  /\ cmdLen \in 0 .. CmdMax /\ cmdExpected \in 0 .. CmdMax
  /\ rspLen \in 0 .. RspMax /\ rspRead \in 0 .. rspLen
  /\ FrameOK(frame)

\* No step overruns the command or the response buffer, or a frame.
LEMMA TpmTypedStep ==
  ASSUME TpmTyped, TpmNext
  PROVE  TpmTyped'
  <1>0. /\ HeaderBytes \in Nat \ {0} /\ MaxLen \in Nat \ {0} /\ CmdMax \in Nat \ {0} /\ RspMax \in Nat \ {0}
        /\ FrameOK(frame) /\ frame \in Frames
    BY TpmBounds DEF TpmTyped, FrameOK
  <1>1. FrameOK(NoFrame)
    BY <1>0 DEF FrameOK, Frames, NoFrame
  <1>. DEFINE Buffers == /\ cmdLen \in 0 .. CmdMax /\ cmdExpected \in 0 .. CmdMax
                         /\ rspLen \in 0 .. RspMax /\ rspRead \in 0 .. rspLen
  <1>2. Buffers
    BY DEF TpmTyped
  <1>3. ASSUME UNCHANGED <<cmdLen, cmdExpected, rspLen, rspRead>>
        PROVE  Buffers'
    BY <1>2, <1>3
  <1>4. ASSUME ClearCommand
        PROVE  Buffers'
    BY <1>0, <1>4 DEF ClearCommand
  <1>5. ASSUME Buffers', FrameOK(frame')
        PROVE  TpmTyped'
    BY <1>5 DEF TpmTyped, FrameOK
  <1>. HIDE DEF Buffers
  <1>6. CASE xfer_header
    <2>1. Buffers'
      BY <1>3, <1>6 DEF xfer_header
    <2>2. FrameOK(frame')
      <3>1. CASE frame.have + 1 < HeaderBytes
        <4>1. frame' = [frame EXCEPT !.have = frame.have + 1] /\ frame.have \in 0 .. HeaderBytes
          BY <1>0, <1>6, <3>1 DEF xfer_header, Frames
        <4>2. frame.have + 1 \in 0 .. HeaderBytes
          BY <1>0, <3>1, <4>1
        <4>3. frame' \in Frames /\ frame'.have = frame.have + 1
          BY <1>0, <4>1, <4>2 DEF Frames
        <4>. QED
          BY <1>0, <3>1, <4>1, <4>3 DEF FrameOK
      <3>2. CASE ~(frame.have + 1 < HeaderBytes)
        <4>1. frame' \in [have : {HeaderBytes}, read : BOOLEAN, len : 1 .. MaxLen, addr : Addrs, wait : {TRUE}]
          BY <1>6, <3>2 DEF xfer_header
        <4>2. /\ frame'.have = HeaderBytes /\ frame'.len \in 1 .. MaxLen
              /\ frame' \in [have : {HeaderBytes}, read : BOOLEAN, len : 1 .. MaxLen, addr : Addrs, wait : {TRUE}]
          BY <4>1
        <4>3. /\ {HeaderBytes} \subseteq 0 .. HeaderBytes /\ 1 .. MaxLen \subseteq 0 .. MaxLen
              /\ Addrs \subseteq Int
          BY <1>0 DEF Addrs, ACCESS, STS, FIFO
        <4>4. {TRUE} \subseteq BOOLEAN
          OBVIOUS
        <4>. DEFINE H == {HeaderBytes}
                    L == 1 .. MaxLen
                    W == {TRUE}
                    HH == 0 .. HeaderBytes
                    LL == 0 .. MaxLen
        <4>5. frame' \in [have : H, read : BOOLEAN, len : L, addr : Addrs, wait : W]
          BY <4>1
        <4>6. H \subseteq HH /\ L \subseteq LL /\ W \subseteq BOOLEAN
          BY <4>3, <4>4
        <4>. HIDE DEF H, L, W, HH, LL
        <4>7. frame' \in [have : HH, read : BOOLEAN, len : LL, addr : Int, wait : BOOLEAN]
          BY <4>3, <4>5, <4>6
        <4>. QED
          BY <1>0, <4>2, <4>7 DEF FrameOK, Frames, HH, LL
      <3>. QED
        BY <3>1, <3>2
    <2>. QED
      BY <1>5, <2>1, <2>2
  <1>7. CASE xfer_wait
    <2>1. Buffers'
      BY <1>3, <1>7 DEF xfer_wait
    <2>2. frame' = [frame EXCEPT !.wait = NotReady]
      BY <1>7 DEF xfer_wait
    <2>3. NotReady \in BOOLEAN
      BY DEF NotReady
    <2>4. frame' \in Frames /\ frame'.have = frame.have /\ frame'.len = frame.len
      BY <1>0, <2>2, <2>3 DEF Frames
    <2>5. FrameOK(frame')
      BY <1>0, <2>4 DEF FrameOK
    <2>. QED
      BY <1>5, <2>1, <2>5
  <1>8. CASE xfer_data
    <2>1. FrameOK(frame')
      <3>1. CASE frame.len = 1
        BY <1>1, <1>8, <3>1 DEF xfer_data
      <3>2. CASE frame.len # 1
        <4>. DEFINE a == IF frame.addr = FIFO THEN frame.addr ELSE frame.addr + 1
                    l == frame.len - 1
        <4>1. frame' = [frame EXCEPT !.len = l, !.addr = a]
          BY <1>8, <3>2 DEF xfer_data
        <4>2. frame.addr \in Int /\ frame.len \in 1 .. MaxLen
          BY <1>0, <1>8 DEF FrameOK, Frames, xfer_data
        <4>3. a \in Int /\ l \in 0 .. MaxLen /\ l >= 1
          BY <1>0, <3>2, <4>2
        <4>. HIDE DEF a, l
        <4>4. frame' \in Frames /\ frame'.len = l
          BY <1>0, <4>1, <4>3 DEF Frames
        <4>. QED
          BY <4>3, <4>4 DEF FrameOK
      <3>. QED
        BY <3>1, <3>2
    <2>2. CASE tpm_read_reg(frame.addr)
      <3>1. CASE rspRead < rspLen /\ ~(rspRead + 1 >= rspLen) /\ frame.addr = FIFO
        <4>1. rspRead' = rspRead + 1 /\ UNCHANGED <<cmdLen, cmdExpected, rspLen>>
          BY <2>2, <3>1 DEF tpm_read_reg
        <4>2. Buffers'
          BY <1>0, <1>2, <3>1, <4>1 DEF Buffers
        <4>. QED
          BY <1>5, <2>1, <4>2
      <3>2. CASE ~(rspRead < rspLen /\ ~(rspRead + 1 >= rspLen) /\ frame.addr = FIFO)
        BY <1>3, <1>4, <1>5, <2>1, <2>2, <3>2 DEF tpm_read_reg
      <3>. QED
        BY <3>1, <3>2
    <2>3. ASSUME NEW rdy \in BOOLEAN, NEW go \in BOOLEAN, NEW n \in {1, RspMax + 1}, tpm_write_sts(rdy, go, n)
          PROVE  TpmTyped'
      <3>1. CASE rdy
        BY <1>4, <1>5, <2>1, <2>3, <3>1 DEF tpm_write_sts
      <3>2. CASE ~rdy /\ (~go \/ cmdLen = 0)
        BY <1>3, <1>5, <2>1, <2>3, <3>2 DEF tpm_write_sts, tpm_backend_process
      <3>3. CASE ~rdy /\ go /\ cmdLen # 0
        <4>1. rspLen' = (IF n > RspMax THEN RspMax ELSE n) /\ rspRead' = 0 /\ UNCHANGED <<cmdLen, cmdExpected>>
          BY <2>3, <3>3 DEF tpm_write_sts, tpm_backend_process
        <4>2. rspLen' \in 0 .. RspMax
          BY <1>0, <4>1
        <4>3. Buffers'
          BY <1>0, <1>2, <4>1, <4>2 DEF Buffers
        <4>. QED
          BY <1>5, <2>1, <4>3
      <3>. QED
        BY <3>1, <3>2, <3>3
    <2>4. ASSUME NEW size \in {0, CmdMax}, tpm_write_fifo(size)
          PROVE  TpmTyped'
      <3>1. /\ cmdLen' = (IF cmdLen < CmdMax THEN cmdLen + 1 ELSE cmdLen)
            /\ cmdExpected' = size \/ cmdExpected' = cmdExpected
            /\ UNCHANGED <<rspLen, rspRead>>
        BY <2>4 DEF tpm_write_fifo
      <3>2. Buffers'
        BY <1>0, <1>2, <3>1 DEF Buffers
      <3>. QED
        BY <1>5, <2>1, <3>2
    <2>5. ASSUME tpm_write_reg(frame.addr)
          PROVE  TpmTyped'
      <3>1. STS # ACCESS /\ STS # FIFO /\ ACCESS # FIFO
        BY DEF STS, ACCESS, FIFO
      <3>2. CASE frame.addr = STS
        <4>1. \E ready1, go \in BOOLEAN, n \in {1, RspMax + 1} : tpm_write_sts(ready1, go, n)
          BY <2>5, <3>1, <3>2, Zenon DEF tpm_write_reg
        <4>. QED
          BY <2>3, <4>1
      <3>3. CASE frame.addr = FIFO
        <4>1. \E size \in {0, CmdMax} : tpm_write_fifo(size)
          BY <2>5, <3>1, <3>3, Zenon DEF tpm_write_reg
        <4>. QED
          BY <2>4, <4>1
      <3>4. CASE frame.addr # STS /\ frame.addr # FIFO
        BY <1>3, <1>5, <2>1, <2>5, <3>4 DEF tpm_write_reg
      <3>. QED
        BY <3>2, <3>3, <3>4
    <2>. QED
      BY <1>8, <2>2, <2>5 DEF xfer_data
  <1>9. CASE tpm_reset
    BY <1>1, <1>4, <1>5, <1>9 DEF tpm_reset
  <1>10. CASE UNCHANGED tisVars
    BY <1>0, <1>3, <1>5, <1>10 DEF tisVars
  <1>. QED
    BY <1>6, <1>7, <1>8, <1>9, <1>10 DEF TpmNext, TisNext, NvNext, tpm_spi_xfer

\* The TPM starts with empty buffers.
LEMMA TpmTypedInit == TpmAtReset => TpmTyped
  <1>1. FrameOK(NoFrame)
    BY TpmBounds DEF FrameOK, Frames, NoFrame
  <1>. QED
    BY <1>1, TpmBounds DEF TpmAtReset, TpmTyped

\* The bounds of the fields are the type invariant.
LEMMA TpmTypedIsType == TpmTyped => TpmTypeOK
  BY DEF TpmTyped, TpmTypeOK, FrameOK, Frames

-----------------------------------------------------------------------------
(* The parts together. *)

LinksTyped == UsartInv /\ SpiTyped /\ SpiFlashInv /\ TpmTyped

\* A part that does not step keeps its invariant, also when it shares the target.
LEMMA PartsStay ==
  /\ UsartInv /\ UNCHANGED usartVars => UsartInv'
  /\ SpiTyped /\ UNCHANGED spiVars => SpiTyped'
  /\ SpiFlashInv /\ UNCHANGED spiflashVars => SpiFlashInv'
  /\ TpmTyped /\ UNCHANGED tpmVars => TpmTyped'
  <1>1. UsartInv /\ UNCHANGED usartVars => UsartInv'
    BY UsartInvStep
  <1>2. SpiTyped /\ UNCHANGED spiVars => SpiTyped'
    BY DEF SpiTyped, spiVars, SpiFlags, SpiNumbers
  <1>3. SpiFlashInv /\ UNCHANGED spiflashVars => SpiFlashInv'
    BY DEF SpiFlashInv, spiflashVars, FlOK, Kept, Armed
  <1>4. TpmTyped /\ UNCHANGED tpmVars => TpmTyped'
    BY DEF TpmTyped, tpmVars, tisVars, FrameOK
  <1>. QED
    BY <1>1, <1>2, <1>3, <1>4

\* No step of any part overruns a ring, a FIFO, the array or a buffer: mm_uart_io.tx_buf,
\* the SPI receive FIFO, the flash array and the TPM's command and response buffers, for
\* every size of each.
THEOREM LinksTypeCorrect == LinksSpec => []LinksTypeOK
  <1>1. LinksInit => LinksTyped
    <2>1. SpiFlashAtReset => SpiFlashInv
      BY SpiFlashInvInit
    <2>. QED
      BY <2>1, UsartInvInit, SpiTypedInit, TpmTypedInit DEF LinksInit, LinksTyped
  <1>2. LinksTyped /\ [LinksNext]_linkVars => LinksTyped'
    <2>. SUFFICES ASSUME LinksTyped, [LinksNext]_linkVars
                  PROVE  LinksTyped'
      OBVIOUS
    <2>1. CASE UsartStep(UsartNext)
      BY <2>1, UsartStepKeeps, PartsStay DEF UsartStep, LinksTyped
    <2>2. CASE part = "spi" /\ SpiNext /\ UNCHANGED <<part, usartVars, spiflashVars, tpmVars>>
      BY <2>2, SpiTypedStep, PartsStay DEF LinksTyped
    <2>3. CASE part = "spiflash" /\ SpiFlashNext /\ UNCHANGED <<part, usartVars, spiVars, tpmVars>>
      BY <2>3, SpiFlashStep, PartsStay DEF LinksTyped
    <2>4. CASE (TisNext \/ NvNext) /\ UNCHANGED <<part, usartVars, spiVars, spiflashVars>>
      BY <2>4, TpmTypedStep, PartsStay DEF LinksTyped, TpmNext
    <2>5. CASE UNCHANGED linkVars
      BY <2>5, PartsStay DEF LinksTyped, linkVars
    <2>. QED
      BY <2>1, <2>2, <2>3, <2>4, <2>5 DEF LinksNext
  <1>3. LinksTyped => LinksTypeOK
    BY UsartInvType, SpiTypedIsType, SpiFlashInvType, TpmTypedIsType DEF LinksTyped, LinksTypeOK
  <1>. QED
    BY <1>1, <1>2, <1>3, PTL DEF LinksSpec
=============================================================================
