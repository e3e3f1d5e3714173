------------------------------- MODULE Usart --------------------------------
(***************************************************************************)
(* A serial port of each target and the host end that it talks to          *)
(* (target_hal.c): a pseudo terminal, or stdout with --uart-stdout.  Bytes *)
(* are numbered in the order they are sent, in each direction, so that a   *)
(* byte lost, repeated or overtaken shows.                                 *)
(***************************************************************************)
EXTENDS Target, Integers, Sequences

CONSTANTS
    TxSlots,      \* bytes that the transmit ring holds (sizeof(tx_buf) - 1)
    PtyRoom,      \* bytes that the host end takes before write() says EAGAIN
    MaxSent,      \* bound on the bytes that software sends, for each target
    MaxTyped      \* bound on the bytes that the host types, for each target
ASSUME SerialBounds ==
    /\ TxSlots \in Nat \ {0} /\ PtyRoom \in Nat \ {0}
    /\ MaxSent \in [Targets -> Nat] /\ MaxTyped \in [Targets -> Nat]

VARIABLES
    uartStdout,   \* g_uart_stdout, and no TUI: chosen on the command line
    inst,         \* which serial instance of the nRF5340 is followed
    ready,        \* serials_init_done of the nRF5340, TRUE elsewhere
    io,           \* struct mm_uart_io
    dev,          \* enable, clock and status bits of the peripheral
    booted,       \* main() has called the init functions
    uirq,         \* its interrupt is pending in the NVIC
    host,         \* the host end: bytes typed, read by us, room and output
    sent,         \* history: bytes that software has sent
    lastRx,       \* history: the byte that software read last
    rxGone        \* history: the last byte dropped because the port closed
usartVars == <<cpu, uartStdout, inst, ready, booted, io, dev, uirq, host, sent, lastRx, rxGone>>

Fds == {"none", "pty", "stdout", "stdin"}   \* -1, a pty, 1, and 0 of memset

-----------------------------------------------------------------------------
(* target_hal.c *)

\* memset() leaves descriptor 0; mm_uart_io_init() replaces it by -1.  base is history:
\* the last byte that left the ring in any way but to make room for a new one
Zeroed == [fd |-> "stdin", so |-> FALSE, txq |-> <<>>, rxb |-> 0, base |-> sent]
mm_uart_io_init == [Zeroed EXCEPT !.fd = "none"]

\* uart_open_pty may fail
mm_uart_io_open(i, ok) ==
    IF uartStdout THEN [i EXCEPT !.fd = "stdout", !.so = TRUE]
                  ELSE [i EXCEPT !.fd = IF ok THEN "pty" ELSE "none"]

mm_uart_io_close(i) ==
    [i EXCEPT !.fd = IF i.so THEN @ ELSE "none", !.rxb = 0, !.txq = <<>>, !.base = sent]

\* What the host typed and nobody read goes with the pseudo terminal
HostHungUp(i, h) == IF i.fd = "pty" THEN [h EXCEPT !.next = h.typed + 1] ELSE h
GoneWith(i, h) == IF i.fd = "pty" /\ h.typed > 0 THEN h.typed ELSE rxGone

\* Mutant of mm_uart_io_queue_tx: a full ring is started afresh.
mm_uart_io_queue_tx_Mut(i, b) ==
    [i EXCEPT !.txq = Append(IF Len(@) = TxSlots THEN <<>> ELSE @, b)]

\* A full ring drops its oldest byte
mm_uart_io_queue_tx(i, b) ==
    [i EXCEPT !.txq = Append(IF Len(@) = TxSlots THEN Tail(@) ELSE @, b)]

\* write() takes what there is room for, then says EAGAIN, or fails and
\* then the ring is emptied
mm_uart_io_flush(i, h, err) ==
    LET n == IF Len(i.txq) < h.room THEN Len(i.txq) ELSE h.room
        rest == SubSeq(i.txq, n + 1, Len(i.txq))
        left == IF err THEN Len(i.txq) ELSE n
    IN IF i.fd = "none"
         THEN [io |-> i, host |-> h, done |-> FALSE]
         ELSE [io |-> [i EXCEPT !.txq = IF err THEN <<>> ELSE rest,
                                !.base = IF left = 0 THEN @ ELSE i.txq[left]],
               host |-> [h EXCEPT !.room = @ - n,
                                  !.last = IF n = 0 THEN @ ELSE i.txq[n]],
               done |-> rest = <<>>]

\* Mutant of mm_uart_io_poll: a new byte replaces one that is still held.
mm_uart_io_poll_Mut(i, h, err) ==
    LET f == mm_uart_io_flush(i, h, err)
        new == f.host.next <= h.typed
    IN IF i.fd = "none" \/ i.so
         THEN [io |-> i, host |-> h, new |-> FALSE]
         ELSE [io |-> IF new THEN [f.io EXCEPT !.rxb = h.next] ELSE f.io,
               host |-> IF new THEN [f.host EXCEPT !.next = @ + 1] ELSE f.host,
               new |-> new]

\* Mutant of mm_uart_io_poll: leaves the transmit ring to the next TDR write.
mm_uart_io_poll_NoFlush_Mut(i, h, err) ==
    LET new == i.rxb = 0 /\ h.next <= h.typed
    IN IF i.fd = "none" \/ i.so
         THEN [io |-> i, host |-> h, new |-> FALSE]
         ELSE [io |-> IF new THEN [i EXCEPT !.rxb = h.next] ELSE i,
               host |-> IF new THEN [h EXCEPT !.next = @ + 1] ELSE h,
               new |-> new]

mm_uart_io_poll(i, h, err) ==
    LET f == mm_uart_io_flush(i, h, err)
        new == i.rxb = 0 /\ f.host.next <= h.typed
    IN IF i.fd = "none" \/ i.so
         THEN [io |-> i, host |-> h, new |-> FALSE]
         ELSE [io |-> IF new THEN [f.io EXCEPT !.rxb = h.next] ELSE f.io,
               host |-> IF new THEN [f.host EXCEPT !.next = @ + 1] ELSE f.host,
               new |-> new]

mm_uart_io_read(i) == IF i.so THEN i ELSE [i EXCEPT !.rxb = 0]
TakeRx(i) == IF i.rxb # 0 /\ ~i.so THEN i.rxb ELSE lastRx

-----------------------------------------------------------------------------
(* stm32l552_usart.c, stm32h563_usart.c, stm32u585_usart.c *)

DevAtReset == [ue |-> FALSE, clk |-> FALSE, on |-> FALSE,
               rxne |-> FALSE, txe |-> TRUE, rxie |-> FALSE, txie |-> FALSE,
               want |-> 0, got |-> 0,
               wiped |-> FALSE]     \* history: RXNE was written away from a byte held

\* The port follows CR1.UE and its clock, at every read, TDR write and poll
ensure_enabled(open_ok) ==
    LET ue == dev.ue /\ dev.clk
        i == mm_uart_io_open(io, open_ok)
    IN CASE ue /\ ~dev.on ->
              [io |-> i, host |-> host, gone |-> rxGone,
               dev |-> [dev EXCEPT !.on = TRUE, !.txe = @ \/ i.fd # "none"]]
         [] ~ue /\ dev.on ->
              [io |-> mm_uart_io_close(io), host |-> HostHungUp(io, host),
               gone |-> GoneWith(io, host), dev |-> [dev EXCEPT !.on = FALSE]]
         [] OTHER -> [io |-> io, host |-> host, dev |-> dev, gone |-> rxGone]

\* A Non-secure access that the TZSC bit refuses reads zero and writes nothing: it
\* is no step of the model
usart_read(reg, open_ok) ==
    LET e == ensure_enabled(open_ok) IN
    /\ host' = e.host /\ rxGone' = e.gone
    /\ CASE reg = "RDR" ->
              /\ io' = mm_uart_io_read(e.io)
              /\ lastRx' = TakeRx(e.io)
              /\ dev' = [e.dev EXCEPT !.rxne = FALSE, !.wiped = FALSE]
         [] reg = "ISR" ->
              /\ dev' = [e.dev EXCEPT !.txe = TRUE] /\ io' = e.io /\ UNCHANGED lastRx
         [] OTHER -> dev' = e.dev /\ io' = e.io /\ UNCHANGED lastRx
    /\ UNCHANGED <<cpu, uartStdout, inst, ready, booted, uirq, sent>>

\* A write of TDR while the port is off is dropped
usart_write_tdr(open_ok, err) ==
    LET e == ensure_enabled(open_ok)
        f == mm_uart_io_flush(mm_uart_io_queue_tx(e.io, sent + 1), e.host, err)
    IN /\ sent < MaxSent[cpu]
       /\ rxGone' = e.gone
       /\ IF e.dev.on
            THEN /\ sent' = sent + 1
                 /\ io' = f.io /\ host' = f.host
                 /\ dev' = [e.dev EXCEPT !.txe = f.done]
            ELSE io' = e.io /\ host' = e.host /\ dev' = e.dev /\ UNCHANGED sent
       /\ UNCHANGED <<cpu, uartStdout, inst, ready, booted, uirq, lastRx>>

usart_write_cr1(ue, rxie, txie) ==
    /\ dev' = [dev EXCEPT !.ue = ue, !.rxie = rxie, !.txie = txie]
    /\ UNCHANGED <<cpu, uartStdout, inst, ready, booted, io, uirq, host, sent, lastRx, rxGone>>

\* ISR is a register like the others: software can set its flags and clear them
usart_write_isr(rxne, txe) ==
    /\ dev' = [dev EXCEPT !.rxne = rxne, !.txe = txe, !.wiped = io.rxb # 0 /\ ~rxne]
    /\ UNCHANGED <<cpu, uartStdout, inst, ready, booted, io, uirq, host, sent, lastRx, rxGone>>

usart_write ==
    \/ \E open_ok, err \in BOOLEAN : usart_write_tdr(open_ok, err)
    \/ \E ue, rxie, txie \in BOOLEAN : usart_write_cr1(ue, rxie, txie)
    \/ \E rxne, txe \in BOOLEAN : usart_write_isr(rxne, txe)

\* Mutant of poll_instance: the interrupt is raised only for a byte that has just come.
poll_instance_Mut(open_ok, err) ==
    LET e == ensure_enabled(open_ok)
        p == mm_uart_io_poll(e.io, e.host, err)
        d == [e.dev EXCEPT !.rxne = @ \/ p.new, !.txe = @ \/ p.io.txq = <<>>,
                          !.wiped = @ /\ ~p.new]
    IN /\ UNCHANGED <<cpu, uartStdout, inst, ready, booted, sent, lastRx>>
       /\ rxGone' = e.gone
       /\ IF e.dev.on
            THEN /\ io' = p.io /\ host' = p.host /\ dev' = d
                 /\ uirq' = (uirq \/ (d.rxie /\ p.new) \/ (d.txie /\ d.txe))
            ELSE io' = e.io /\ host' = e.host /\ dev' = e.dev /\ UNCHANGED uirq

poll_instance(open_ok, err) ==
    LET e == ensure_enabled(open_ok)
        p == mm_uart_io_poll(e.io, e.host, err)
        d == [e.dev EXCEPT !.rxne = @ \/ p.new, !.txe = @ \/ p.io.txq = <<>>,
                          !.wiped = @ /\ ~p.new]
    IN /\ UNCHANGED <<cpu, uartStdout, inst, ready, booted, sent, lastRx>>
       /\ rxGone' = e.gone
       /\ IF e.dev.on
            THEN /\ io' = p.io /\ host' = p.host /\ dev' = d
                 /\ uirq' = (uirq \/ (d.rxie /\ d.rxne) \/ (d.txie /\ d.txe))
            ELSE io' = e.io /\ host' = e.host /\ dev' = e.dev /\ UNCHANGED uirq

stm32l552_usart_read(reg, ok) == cpu = "stm32l552" /\ usart_read(reg, ok)
stm32h563_usart_read(reg, ok) == cpu = "stm32h563" /\ usart_read(reg, ok)
stm32u585_usart_read(reg, ok) == cpu = "stm32u585" /\ usart_read(reg, ok)

stm32l552_usart_write == cpu = "stm32l552" /\ usart_write
stm32h563_usart_write == cpu = "stm32h563" /\ usart_write
stm32u585_usart_write == cpu = "stm32u585" /\ usart_write

stm32l552_usart_poll(ok, err) == cpu = "stm32l552" /\ poll_instance(ok, err)
stm32h563_usart_poll(ok, err) == cpu = "stm32h563" /\ poll_instance(ok, err)
stm32u585_usart_poll(ok, err) == cpu = "stm32u585" /\ poll_instance(ok, err)

\* The clock bit, which another register holds
UsartGate ==
    /\ dev' = [dev EXCEPT !.clk = ~@]
    /\ UNCHANGED <<cpu, uartStdout, inst, ready, booted, io, uirq, host, sent, lastRx, rxGone>>

-----------------------------------------------------------------------------
(* mcxw71c_usart.c: open from boot to reset, and no interrupt.  An access      *)
(* without MRCC clock or in reset fails: a bus fault, with no effect here.     *)

mcxw71c_usart_read ==
    /\ cpu = "mcxw71c" /\ dev.clk
    /\ io' = mm_uart_io_read(io) /\ lastRx' = TakeRx(io)
    /\ dev' = [dev EXCEPT !.rxne = FALSE]
    /\ UNCHANGED <<cpu, uartStdout, inst, ready, booted, uirq, host, sent, rxGone>>

mcxw71c_usart_write(err) ==
    /\ cpu = "mcxw71c" /\ dev.clk
    /\ \/ /\ dev.ue /\ sent < MaxSent[cpu]                     \* DATA, with CTRL.TE
          /\ LET f == mm_uart_io_flush(mm_uart_io_queue_tx(io, sent + 1), host, err)
             IN io' = f.io /\ host' = f.host
          /\ sent' = sent + 1
          /\ dev' = [dev EXCEPT !.txe = TRUE]
       \/ /\ \/ dev' = [dev EXCEPT !.ue = ~@]              \* CTRL
             \/ \E rdrf, tdre \in BOOLEAN :                \* STAT is stored as written
                  dev' = [dev EXCEPT !.rxne = rdrf, !.txe = tdre]
          /\ UNCHANGED <<io, host, sent>>
    /\ UNCHANGED <<cpu, uartStdout, inst, ready, booted, uirq, lastRx, rxGone>>

mcxw71c_usart_poll(err) ==
    LET p == mm_uart_io_poll(io, host, err) IN
    /\ cpu = "mcxw71c"
    /\ io' = p.io /\ host' = p.host
    /\ dev' = IF p.new THEN [dev EXCEPT !.rxne = TRUE, !.txe = @ \/ p.io.txq = <<>>]
                       ELSE dev
    /\ UNCHANGED <<cpu, uartStdout, inst, ready, booted, uirq, sent, lastRx, rxGone>>

-----------------------------------------------------------------------------
(* nrf5340_uart_spi.c: UARTE with EasyDMA.  dev.ue is ENABLE = UARTE, dev.clk   *)
(* the running HF clock, dev.on rx_running, dev.want and dev.got RXD.MAXCNT and *)
(* RXD.AMOUNT, dev.rxne and dev.txe EVENTS_RXDRDY and EVENTS_ENDTX.             *)

serial_uarte_try_rx(i, d) ==
    LET go == d.on /\ d.clk /\ d.ue
        take == go /\ i.rxb # 0 /\ d.got < d.want
        got == IF take THEN d.got + 1 ELSE d.got
        full == go /\ got >= d.want /\ d.want # 0
    IN [io |-> IF take THEN mm_uart_io_read(i) ELSE i,
        rx |-> IF take THEN TakeRx(i) ELSE lastRx,
        dev |-> [d EXCEPT !.got = got, !.rxne = @ \/ take, !.on = @ /\ ~full],
        irq |-> d.rxie /\ (take \/ full)]

\* STARTRX and FLUSHRX, STOPRX; RXD.MAXCNT, ENABLE, INTENSET
nrf5340_serial_write_rx ==
    /\ cpu = "nrf5340"
    /\ \E d \in {[dev EXCEPT !.on = TRUE, !.got = 0], dev} :
         LET r == serial_uarte_try_rx(io, d) IN
         io' = r.io /\ dev' = r.dev /\ lastRx' = r.rx /\ uirq' = (uirq \/ (r.irq /\ ready))
    /\ UNCHANGED <<cpu, uartStdout, inst, ready, booted, host, sent, rxGone>>

nrf5340_serial_write_reg ==
    /\ cpu = "nrf5340"
    /\ \/ dev' = [dev EXCEPT !.on = FALSE]
       \/ \E n \in 0 .. 1 : dev' = [dev EXCEPT !.want = n]
       \/ dev' = [dev EXCEPT !.ue = ~@]
       \/ dev' = [dev EXCEPT !.rxie = ~@]
       \/ dev' = [dev EXCEPT !.rxne = FALSE, !.txe = FALSE]
    /\ UNCHANGED <<cpu, uartStdout, inst, ready, booted, io, uirq, host, sent, lastRx, rxGone>>

\* STARTTX queues the whole buffer, then flushes once
serial_uarte_start_tx(n, err) ==
    LET q[k \in 0 .. n] == IF k = 0 THEN io ELSE mm_uart_io_queue_tx(q[k - 1], sent + k)
        f == mm_uart_io_flush(q[n], host, err)
    IN /\ cpu = "nrf5340" /\ dev.clk /\ dev.ue /\ sent + n <= MaxSent[cpu]
       /\ io' = f.io /\ host' = f.host /\ sent' = sent + n
       /\ dev' = [dev EXCEPT !.txe = TRUE]
       /\ UNCHANGED <<cpu, uartStdout, inst, ready, booted, uirq, lastRx, rxGone>>

nrf5340_usart_poll(err) ==
    LET p == mm_uart_io_poll(io, host, err)
        r == serial_uarte_try_rx(p.io, dev)
    IN /\ cpu = "nrf5340"
       /\ CASE ~ready -> UNCHANGED <<io, host, dev, lastRx, uirq>>
            [] ready /\ p.new -> /\ io' = r.io /\ host' = p.host /\ dev' = r.dev
                                /\ lastRx' = r.rx /\ uirq' = (uirq \/ r.irq)
            [] OTHER -> io' = p.io /\ host' = p.host /\ UNCHANGED <<dev, lastRx, uirq>>
       /\ UNCHANGED <<cpu, uartStdout, inst, ready, booted, sent, rxGone>>

-----------------------------------------------------------------------------
(* Boot: what main() calls, at power-up and after every reset request *)

\* usart_reset, usart_init
stm32l552_usart_init == cpu = "stm32l552" /\ io' = mm_uart_io_init /\ ready' = TRUE
stm32h563_usart_init == cpu = "stm32h563" /\ io' = mm_uart_io_init /\ ready' = TRUE
stm32u585_usart_init == cpu = "stm32u585" /\ io' = mm_uart_io_init /\ ready' = TRUE

mcxw71c_usart_init(open_ok) ==
    /\ cpu = "mcxw71c"
    /\ io' = mm_uart_io_open(mm_uart_io_init, open_ok) /\ ready' = TRUE

\* serial_register_all: a base that the bus already has ends the loop
serial_register_all(on_bus, open_ok) ==
    /\ io' = IF inst = 0 \/ ~on_bus THEN mm_uart_io_open(mm_uart_io_init, open_ok) ELSE Zeroed
    /\ ready' = ~on_bus

\* usart_reset, usart_init, spi_reset and spi_init work on the same instances: the
\* last of them finds the regions of the first registration on the bus
nrf5340_boot(open_ok) == cpu = "nrf5340" /\ serial_register_all(TRUE, open_ok)

UsartBoot ==
    /\ \E ok \in BOOLEAN :
         \/ stm32l552_usart_init \/ stm32h563_usart_init \/ stm32u585_usart_init
         \/ mcxw71c_usart_init(ok) \/ nrf5340_boot(ok)
    /\ host' = HostHungUp(io, host) /\ rxGone' = GoneWith(io, host)
    /\ dev' = [DevAtReset EXCEPT !.txe = cpu # "nrf5340"]
    /\ uirq' = FALSE /\ booted' = TRUE
    /\ UNCHANGED <<cpu, uartStdout, inst, sent, lastRx>>

-----------------------------------------------------------------------------
(* The host and the NVIC (external) *)

HostTypes ==
    /\ host.typed < MaxTyped[cpu] /\ io.fd = "pty"
    /\ host' = [host EXCEPT !.typed = @ + 1]
    /\ UNCHANGED <<cpu, uartStdout, inst, ready, booted, io, dev, uirq, sent, lastRx, rxGone>>

HostReads ==
    /\ host.room < PtyRoom
    /\ host' = [host EXCEPT !.room = @ + 1]
    /\ UNCHANGED <<cpu, uartStdout, inst, ready, booted, io, dev, uirq, sent, lastRx, rxGone>>

UsartIrqTaken ==
    /\ uirq /\ uirq' = FALSE
    /\ UNCHANGED <<cpu, uartStdout, inst, ready, booted, io, dev, host, sent, lastRx, rxGone>>

UsartAtReset ==
    /\ uartStdout \in BOOLEAN
    /\ inst \in 0 .. 1 /\ (cpu # "nrf5340" => inst = 0)
    /\ ready = FALSE /\ booted = FALSE
    /\ sent = 0 /\ lastRx = 0 /\ rxGone = 0
    /\ io = Zeroed
    /\ dev = DevAtReset
    /\ uirq = FALSE
    /\ host = [typed |-> 0, next |-> 1, room |-> PtyRoom, last |-> 0]

UsartInit == TargetInit /\ UsartAtReset

UsartPoll ==
    \E ok, err \in BOOLEAN :
        \/ stm32l552_usart_poll(ok, err)
        \/ stm32h563_usart_poll(ok, err)
        \/ stm32u585_usart_poll(ok, err)
        \/ mcxw71c_usart_poll(err)
        \/ nrf5340_usart_poll(err)

Registers == {"RDR", "ISR", "CR1"}
UsartSoftware ==
    \/ \E reg \in Registers, ok \in BOOLEAN :
         \/ stm32l552_usart_read(reg, ok)
         \/ stm32h563_usart_read(reg, ok)
         \/ stm32u585_usart_read(reg, ok)
    \/ stm32l552_usart_write
    \/ stm32h563_usart_write
    \/ stm32u585_usart_write
    \/ mcxw71c_usart_read
    \/ \E err \in BOOLEAN : mcxw71c_usart_write(err)
    \/ nrf5340_serial_write_rx \/ nrf5340_serial_write_reg
    \/ \E err \in BOOLEAN, n \in 1 .. MaxSent[cpu] : serial_uarte_start_tx(n, err)
    \/ UsartGate

UsartNext ==
    \/ UsartBoot
    \/ booted /\ (UsartPoll \/ UsartSoftware)
    \/ HostTypes \/ HostReads \/ UsartIrqTaken

UsartFairness == WF_usartVars(booted /\ UsartPoll) /\ WF_usartVars(HostReads)
UsartSpec == UsartInit /\ [][UsartNext]_usartVars /\ UsartFairness

-----------------------------------------------------------------------------
(* Properties *)

\* The ring and the byte counts stay within their bounds.
UsartTypeOK ==
    /\ cpu \in Targets
    /\ {uartStdout, ready, booted, uirq} \subseteq BOOLEAN
    /\ io.fd \in Fds /\ io.so \in BOOLEAN
    /\ io.txq \in Seq(1 .. sent) /\ Len(io.txq) <= TxSlots
    /\ io.rxb \in 0 .. host.typed
    /\ host.typed \in 0 .. MaxTyped[cpu] /\ host.next \in 1 .. host.typed + 1
    /\ host.room \in 0 .. PtyRoom /\ host.last \in 0 .. sent
    /\ sent \in 0 .. MaxSent[cpu] /\ lastRx \in 0 .. host.typed

\* The host sees the bytes in the order software sent them, and the ring holds the
\* newest of those that neither the host has taken nor an error, a close or a reset has
\* dropped: as many as fit, without a gap, so that an overflow costs the oldest byte
\* and no other (mm_uart_io_queue_tx, _flush).
OutputKeepsNewest ==
    LET q == io.txq
        waiting == sent - io.base
    IN /\ Len(q) = IF waiting < TxSlots THEN waiting ELSE TxSlots
       /\ host.last <= io.base
       /\ \A k \in 1 .. Len(q) : q[k] = sent - Len(q) + k

\* Software reads the bytes typed at the pseudo terminal in their order and skips
\* none but those lost when the port was closed (mm_uart_io_poll holds one byte).
NoByteSkipped ==
    [][lastRx' # lastRx =>
         lastRx' = (IF lastRx > rxGone THEN lastRx ELSE rxGone) + 1]_usartVars

\* While the port is on with RXNEIE, a byte held for software raises the interrupt,
\* also when the enable came after the byte, unless software wrote RXNE away in ISR,
\* which usart_write stores as it is given (poll_instance).
ReceiveRaisesInterrupt ==
    (ready /\ cpu \in Stm32 /\ dev.on /\ dev.rxie /\ io.rxb # 0 /\ ~dev.wiped)
        ~> (uirq \/ ~dev.on \/ ~dev.rxie \/ io.rxb = 0 \/ dev.wiped)

\* Bytes that a pseudo terminal refused for a while are sent later by the poll.
OutputDrains == (ready /\ io.fd = "pty" /\ io.txq # <<>>) ~> (io.txq = <<>> \/ ~ready)
=============================================================================
