------------------------------- MODULE TpmTis -------------------------------
(***************************************************************************)
(* The TPM on the SPI bus (tpm_tis.c): the framing of the TIS protocol,    *)
(* the command and response buffers, and the non-volatile store that       *)
(* libtpms calls back into.  Bytes of a command or of a response are       *)
(* counted, not stored; a command is identified by its number.             *)
(***************************************************************************)
EXTENDS Integers, FiniteSets

CONSTANTS
    HeaderBytes,    \* bytes of a TIS frame header (4)
    MaxLen,         \* bytes that one frame moves (64 on the wire)
    SizeField,      \* length of a command when its size field is complete (6)
    CmdMax,         \* TPM_CMD_MAX
    RspMax,         \* TPM_RSP_MAX
    MaxCmds,        \* bound on the commands executed
    Names,          \* names of non-volatile blobs
    Slots           \* entries of the in-memory store (16)
ASSUME TpmBounds ==
    /\ {HeaderBytes, MaxLen, SizeField, CmdMax, RspMax, MaxCmds, Slots} \subseteq Nat \ {0}
    /\ SizeField <= CmdMax
ASSUME NamesAssumption == "" \notin Names    \* no entry has an empty name

VARIABLES
    frame,      \* header bytes received, and the frame they announce
    locality,   \* locality_active
    cmdLen, cmdExpected,
    rspLen, rspRead,
    cmds,       \* history: commands executed
    nvFile,     \* a backing file was given
    entries,    \* nv.entries: a name, or "" for a free entry, and its version
    files,      \* versions in the backing files, 0 for none and for an empty file
    stored,     \* history: the last version stored without error, 0 when deleted
    torn        \* history: the names whose file the last store cut short
tisVars == <<frame, locality, cmdLen, cmdExpected, rspLen, rspRead, cmds>>
nvVars == <<nvFile, entries, files, stored, torn>>
tpmVars == <<tisVars, nvVars>>

ACCESS == 0
STS == 24
FIFO == 36
Addrs == {ACCESS, STS - 1, STS, FIFO}

NoFrame == [have |-> 0, read |-> FALSE, len |-> 0, addr |-> 0, wait |-> FALSE]

-----------------------------------------------------------------------------
(* Registers *)

\* Mutant of ClearCommand: the response of the command stays.
ClearCommand_Mut == cmdLen' = 0 /\ cmdExpected' = 0 /\ UNCHANGED <<rspLen, rspRead>>

ClearCommand == cmdLen' = 0 /\ cmdExpected' = 0 /\ rspLen' = 0 /\ rspRead' = 0

\* A read of the FIFO takes one byte of the response; the last one ends the command
tpm_read_reg(addr) ==
    IF addr = FIFO /\ rspRead < rspLen
      THEN IF rspRead + 1 >= rspLen
             THEN ClearCommand
             ELSE /\ rspRead' = rspRead + 1
                  /\ UNCHANGED <<cmdLen, cmdExpected, rspLen>>
      ELSE UNCHANGED <<cmdLen, cmdExpected, rspLen, rspRead>>

\* TPMLIB_Process (external) answers with n bytes, cut to the buffer
tpm_backend_process(len, n) ==
    IF len = 0
      THEN UNCHANGED <<rspLen, rspRead, cmds>>
      ELSE /\ cmds < MaxCmds
           /\ cmds' = cmds + 1
           /\ rspLen' = IF n > RspMax THEN RspMax ELSE n
           /\ rspRead' = 0

\* STS: commandReady drops command and response, after which tpmGo finds nothing
\* to run; otherwise tpmGo runs the command
tpm_write_sts(ready, go, n) ==
    /\ IF ready THEN ClearCommand /\ UNCHANGED cmds
       ELSE /\ IF go THEN tpm_backend_process(cmdLen, n)
                      ELSE UNCHANGED <<rspLen, rspRead, cmds>>
            /\ UNCHANGED <<cmdLen, cmdExpected>>
    /\ UNCHANGED locality

\* FIFO: the size is taken from the command once its size field is complete
tpm_write_fifo(size) ==
    LET len == IF cmdLen < CmdMax THEN cmdLen + 1 ELSE cmdLen
        known == cmdLen < CmdMax /\ cmdExpected = 0 /\ len >= SizeField
    IN /\ cmdLen' = len
       /\ cmdExpected' = IF known /\ size > SizeField /\ size <= CmdMax THEN size ELSE cmdExpected
       /\ UNCHANGED <<locality, rspLen, rspRead, cmds>>

tpm_write_reg(addr) ==
    CASE addr = ACCESS -> /\ locality' \in BOOLEAN
                          /\ UNCHANGED <<cmdLen, cmdExpected, rspLen, rspRead, cmds>>
      [] addr = STS -> \E ready, go \in BOOLEAN, n \in {1, RspMax + 1} : tpm_write_sts(ready, go, n)
      [] addr = FIFO -> \E size \in {0, CmdMax} : tpm_write_fifo(size)
      [] OTHER -> UNCHANGED <<locality, cmdLen, cmdExpected, rspLen, rspRead, cmds>>

-----------------------------------------------------------------------------
(* tpm_spi_xfer: one byte with the chip select low.  A byte with the chip select *)
(* high changes nothing, and neither does tpm_spi_end.                           *)

\* Header, then wait states until the register is ready
xfer_header ==
    /\ frame.have < HeaderBytes
    /\ frame' \in
         IF frame.have + 1 < HeaderBytes
           THEN {[frame EXCEPT !.have = @ + 1]}
           ELSE [have : {HeaderBytes}, read : BOOLEAN, len : 1 .. MaxLen, addr : Addrs, wait : {TRUE}]
    /\ UNCHANGED <<locality, cmdLen, cmdExpected, rspLen, rspRead, cmds>>

NotReady == frame.read /\ frame.addr = FIFO /\ rspLen = 0

xfer_wait ==
    /\ frame.have = HeaderBytes /\ frame.wait
    /\ frame' = [frame EXCEPT !.wait = NotReady]
    /\ UNCHANGED <<locality, cmdLen, cmdExpected, rspLen, rspRead, cmds>>

\* A data byte; the last one of the frame makes room for the next header
xfer_data ==
    /\ frame.have = HeaderBytes /\ ~frame.wait
    /\ IF frame.read
         THEN tpm_read_reg(frame.addr) /\ UNCHANGED <<locality, cmds>>
         ELSE tpm_write_reg(frame.addr)
    /\ frame' = IF frame.len = 1 THEN NoFrame
                ELSE [frame EXCEPT !.len = @ - 1, !.addr = IF @ = FIFO THEN @ ELSE @ + 1]

tpm_spi_xfer == xfer_header \/ xfer_wait \/ xfer_data

\* mm_tpm_tis_reset_all, at every reset request
tpm_reset ==
    /\ frame' = NoFrame /\ locality' = FALSE /\ ClearCommand
    /\ UNCHANGED cmds

-----------------------------------------------------------------------------
(* The callbacks of the non-volatile store *)

\* tpm_nv_find and tpm_nv_alloc
Find(name) == {i \in 1 .. Slots : entries[i].name = name}
Free == {i \in 1 .. Slots : entries[i].name = ""}
First(S) == CHOOSE i \in S : \A j \in S : i <= j

\* tpm_nv_free_entry clears the name along with the data
tpm_nv_free_entry == [name |-> "", data |-> 0]

Torn == -1      \* the beginning of a blob

\* The entry that storedata has found, or allocated and named, is emptied first.  The
\* file may not open; once it is open it is empty, and it may take only the beginning,
\* an empty one too.  A blob of no bytes is version 0.
tpm_nvram_storedata(name, v, opens, written) ==
    LET room == Find(name) \cup Free
        i == IF Find(name) # {} THEN First(Find(name)) ELSE First(Free)
        done == ~nvFile \/ (opens /\ written = v)
    IN /\ room # {} /\ written \in {v, Torn, 0}
       /\ entries' = [entries EXCEPT ![i] = [tpm_nv_free_entry EXCEPT !.data = v]]
       /\ files' = IF nvFile /\ opens THEN [files EXCEPT ![name] = written] ELSE files
       /\ stored' = IF done THEN [stored EXCEPT ![name] = v] ELSE stored
       /\ torn' = CASE done -> torn \ {name}
                    [] ~done /\ opens -> torn \cup {name}
                    [] OTHER -> torn
       /\ UNCHANGED nvFile

\* What loaddata returns: the version, or 0 for TPM_RETRY
tpm_nvram_loaddata(name) ==
    IF Find(name) # {} /\ entries[First(Find(name))].data # 0
      THEN entries[First(Find(name))].data
      ELSE IF nvFile THEN files[name] ELSE 0

\* Mutant of tpm_nvram_deletename: the file is kept.
tpm_nvram_deletename_Mut(name, mustExist) ==
    /\ entries' = IF Find(name) = {} THEN entries
                  ELSE [entries EXCEPT ![First(Find(name))] = tpm_nv_free_entry]
    /\ stored' = [stored EXCEPT ![name] = 0] /\ torn' = torn \ {name}
    /\ UNCHANGED <<nvFile, files>>

\* With mustExist, a name that no entry has is an error and nothing is removed
tpm_nvram_deletename(name, mustExist) ==
    LET refused == mustExist /\ Find(name) = {} IN
    /\ entries' = IF Find(name) = {} THEN entries
                  ELSE [entries EXCEPT ![First(Find(name))] = tpm_nv_free_entry]
    /\ files' = IF nvFile /\ ~refused THEN [files EXCEPT ![name] = 0] ELSE files
    /\ stored' = IF refused THEN stored ELSE [stored EXCEPT ![name] = 0]
    /\ torn' = IF refused THEN torn ELSE torn \ {name}
    /\ UNCHANGED nvFile

\* The emulator ends, and the next run registers a fresh store
NvRestart ==
    /\ entries' = [i \in 1 .. Slots |-> tpm_nv_free_entry]
    /\ stored' = IF nvFile THEN stored ELSE [n \in Names |-> 0]
    /\ UNCHANGED <<nvFile, files, torn>>

-----------------------------------------------------------------------------

TpmAtReset ==
    /\ frame = NoFrame /\ locality = FALSE
    /\ cmdLen = 0 /\ cmdExpected = 0 /\ rspLen = 0 /\ rspRead = 0
    /\ cmds = 0
    /\ nvFile \in BOOLEAN
    /\ entries = [i \in 1 .. Slots |-> tpm_nv_free_entry]
    /\ files = [n \in Names |-> 0] /\ stored = [n \in Names |-> 0]
    /\ torn = {}

Versions == 0 .. 2

\* libtpms calls the store while it runs a command
NvCallback ==
    \/ \E name \in Names, v \in Versions, opens \in BOOLEAN, written \in Versions \cup {Torn} :
         tpm_nvram_storedata(name, v, opens, written)
    \/ \E name \in Names, mustExist \in BOOLEAN : tpm_nvram_deletename(name, mustExist)
    \/ NvRestart

TisNext == (tpm_spi_xfer \/ tpm_reset) /\ UNCHANGED nvVars
NvNext == NvCallback /\ UNCHANGED tisVars
TpmNext == TisNext \/ NvNext

TpmSpec == TpmAtReset /\ [][TpmNext]_tpmVars

-----------------------------------------------------------------------------
(* Properties *)

\* The buffers are never overrun, and the frame state is one the code can decode.
TpmTypeOK ==
    /\ cmdLen \in 0 .. CmdMax /\ cmdExpected \in 0 .. CmdMax
    /\ rspLen \in 0 .. RspMax /\ rspRead \in 0 .. rspLen
    /\ frame.have \in 0 .. HeaderBytes /\ frame.len \in 0 .. MaxLen

\* A byte that software writes to the FIFO never becomes part of a command that has
\* already been answered in full: once the last byte of a response was read, the
\* next command starts from an empty buffer (tpm_read_reg, tpm_write_reg).
AnsweredCommandIsGone == rspLen > 0 => rspRead < rspLen /\ cmdLen > 0

\* With a backing file, loading a name gives the version that was stored last, also
\* after deletions, a store whose file did not open and a restart; after a store that
\* was cut short it gives the beginning of that blob or nothing, never an older
\* version (tpm_nvram_storedata, _loaddata).
NvFileHoldsLastStore ==
    nvFile => \A n \in Names : IF n \in torn THEN tpm_nvram_loaddata(n) \in {Torn, 0}
                                            ELSE tpm_nvram_loaddata(n) = stored[n]

=============================================================================
