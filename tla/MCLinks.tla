------------------------------- MODULE MCLinks -------------------------------
(* The targets' ways to the outside: serial ports, SPI controllers, and the    *)
(* two devices that can sit on an SPI bus.  The parts do not share state here, *)
(* so each behaviour follows one of them.                                      *)
EXTENDS Usart, Spi, SpiFlash, TpmTis

VARIABLE part
linkVars == <<part, usartVars, spiVars, spiflashVars, tpmVars>>

\* The STM32 drivers are the same: one of them gets the longer output, another the
\* longer input.
MCMaxSent == [c \in Targets |-> CASE c = "stm32l552" -> 4
                                  [] c = "stm32h563" -> 0
                                  [] c = "stm32u585" -> 1
                                  [] OTHER -> 2]
MCMaxTyped == [c \in Targets |-> CASE c = "stm32l552" -> 0
                                   [] c = "stm32h563" -> 2
                                   [] OTHER -> 1]

LinksInit ==
    /\ part \in {"usart", "spi", "spiflash", "tis", "nv"}
    /\ UsartInit /\ SpiInit /\ SpiFlashAtReset /\ TpmAtReset
    /\ part # "usart" => ~uartStdout /\ inst = 0
    /\ cpu \in {"stm32l552", "stm32h563"} => ~uartStdout
    /\ part \in {"spiflash", "tis", "nv"} => cpu = "stm32l552"
    /\ part # "spiflash" => csValid /\ \A a \in Cells : mem[a]
    /\ part # "nv" => nvFile

UsartStep(A) == part = "usart" /\ A /\ UNCHANGED <<part, spiVars, spiflashVars, tpmVars>>
Polling == UsartStep(booted /\ UsartPoll)
Reading == UsartStep(HostReads)

LinksNext ==
    \/ UsartStep(UsartNext)
    \/ /\ part = "spi" /\ SpiNext
       /\ UNCHANGED <<part, usartVars, spiflashVars, tpmVars>>
    \/ /\ part = "spiflash" /\ SpiFlashNext
       /\ UNCHANGED <<part, usartVars, spiVars, tpmVars>>
    \/ /\ \/ part = "tis" /\ TisNext
          \/ part = "nv" /\ NvNext
       /\ UNCHANGED <<part, usartVars, spiVars, spiflashVars>>

\* The run loop polls the serial ports for ever, and the program at the other end
\* of the pseudo terminal goes on reading.
LinksSpec ==
    /\ LinksInit /\ [][LinksNext]_linkVars
    /\ WF_linkVars(Polling) /\ WF_linkVars(Reading)

\* The rings, FIFOs and buffers are never overrun: mm_uart_io.tx_buf, the SPI
\* receive FIFO, the flash array and the TPM's command and response buffers.
LinksTypeOK == UsartTypeOK /\ SpiTypeOK /\ SpiFlashTypeOK /\ TpmTypeOK
=============================================================================
