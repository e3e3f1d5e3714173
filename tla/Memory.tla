------------------------------- MODULE Memory -------------------------------
(***************************************************************************)
(* Who may touch which memory: mem_prot.c with the SAU, the MPU and the    *)
(* block-based RAM protection (MPCBB) of the STM32 targets, and the memory *)
(* map behind it.  Flash and one RAM block appear at a Non-secure and at a *)
(* Secure address each, and so does the page of the MPCBB's registers.  An *)
(* address stands for a granule of 32 bytes, the unit of the SAU and the   *)
(* MPU; an access that straddles two granules is attributed by its first   *)
(* byte and is left out, as is the SCS, which every access may reach.      *)
(***************************************************************************)
EXTENDS Target, Integers, FiniteSets

CONSTANTS
    SauRegions,     \* SAU regions that software uses, for each target
    Bounds,         \* bases and limits that software writes
    MpuLimits       \* limits of the MPU's XN region; 0 stands for `disabled'

FlashNs == 1
FlashS == 2
RamNs == 3
RamS == 4
PageNs == 5
PageS == 6
MemAddrs == 0 .. 6          \* nothing is mapped at 0
AccessTypes == {"read", "write", "exec"}

ASSUME MemoryBounds ==
    /\ SauRegions \in [Targets -> 1 .. 8]
    /\ Bounds \subseteq MemAddrs \ {0} /\ MpuLimits \subseteq MemAddrs

VARIABLES
    sau,        \* ctrl, rnr, and the regions' RBAR and RLAR
    mpu,        \* the limit of each state's XN region, 0 when it is off
    mpcbb,      \* SECCFGR's bit of the RAM block, and INVSECSTATE
    sfPending,  \* securefault_pending
    given       \* history: of the RAM block and the MPCBB's page, what Secure
                \* software has let go since the reset
memVars == <<cpu, sau, mpu, mpcbb, sfPending, given>>

SauRegion == [base : MemAddrs, limit : MemAddrs, en : BOOLEAN, nsc : BOOLEAN]
SauAtReset == [enable |-> FALSE, allns |-> FALSE, rnr |-> 1,
               region |-> [i \in 1 .. SauRegions[cpu] |->
                             [base |-> 0, limit |-> 0, en |-> FALSE, nsc |-> FALSE]]]

-----------------------------------------------------------------------------
(* Attribution *)

sau_region_matches(r, a) == r.en /\ r.base <= a /\ a <= r.limit

\* Mutant of mm_sau_attr_for_addr: the lowest-numbered region has priority.
mm_sau_attr_for_addr_Mut(u, a) ==
    LET hits == {i \in DOMAIN u.region : sau_region_matches(u.region[i], a)}
        best == CHOOSE i \in hits : \A j \in hits : i <= j
    IN  IF ~u.enable THEN "Secure"
        ELSE IF hits # {} THEN IF u.region[best].nsc THEN "NSC" ELSE "NonSecure"
        ELSE IF u.allns THEN "NonSecure" ELSE "Secure"

\* The highest-numbered region that matches decides
mm_sau_attr_for_addr(u, a) ==
    LET hits == {i \in DOMAIN u.region : sau_region_matches(u.region[i], a)}
        best == CHOOSE i \in hits : \A j \in hits : j <= i
    IN  IF ~u.enable THEN "Secure"
        ELSE IF hits # {} THEN IF u.region[best].nsc THEN "NSC" ELSE "NonSecure"
        ELSE IF u.allns THEN "NonSecure" ELSE "Secure"

mpcbb_block_secure == mpcbb.sec # mpcbb.inv

\* The targets whose configuration lists RAM regions.  The l552 has an MPCBB too,
\* whose registers decide nothing: mpcbb_attr_for_addr finds no region there.
WithRamRegions == {"stm32h563", "stm32u585"}

\* mpcbb_attr_for_addr: in a RAM region the block's own state counts, at both
\* addresses, and the SAU is not asked
Attribution(a) ==
    IF cpu \in WithRamRegions /\ a \in {RamNs, RamS}
      THEN IF mpcbb_block_secure THEN "Secure" ELSE "NonSecure"
      ELSE mm_sau_attr_for_addr(sau, a)

\* One region from address 1 on, with XN set; nothing else of the MPU is enforced
mm_mpu_is_xn_exec(s, a) == a >= 1 /\ a <= mpu[s]

\* The regions main() adds: flash and RAM at the two addresses, and all
\* peripherals for both states but not for execution
ProtRegions(a) ==
    CASE a \in {FlashNs, RamNs} -> [sec |-> {NonSecure}, perms |-> AccessTypes]
      [] a \in {FlashS, RamS} -> [sec |-> {Secure}, perms |-> AccessTypes]
      [] a \in {PageNs, PageS} -> [sec |-> SecStates, perms |-> {"read", "write"}]
      [] OTHER -> [sec |-> {}, perms |-> {}]

\* The SecureFault test of mm_prot_interceptor
Violates(s, type, a) ==
    /\ s = NonSecure
    /\ \/ Attribution(a) = "Secure"
       \/ Attribution(a) = "NSC" /\ type # "exec"

mm_prot_interceptor(s, type, a) ==
    LET addrSec == IF Attribution(a) = "NonSecure" THEN NonSecure ELSE Secure
        anySec == s = Secure /\ type # "exec"
    IN  /\ ~Violates(s, type, a)
        /\ ~(type = "exec" /\ mm_mpu_is_xn_exec(s, a))
        /\ anySec \/ addrSec \in ProtRegions(a).sec
        /\ ProtRegions(a).sec # {} /\ type \in ProtRegions(a).perms

-----------------------------------------------------------------------------
(* Accesses.  Each operator of the memory map gives the cell that an access *)
(* reaches, or "none"; both addresses of a cell lead to the same one.       *)

ram_offset_for_addr(a) == IF a \in {RamNs, RamS} THEN "ram" ELSE "none"

mm_memmap_read(s, a) ==
    IF ~mm_prot_interceptor(s, "read", a) THEN "none"
    ELSE IF a \in {FlashNs, FlashS} THEN "flash"
    ELSE IF a \in {PageNs, PageS} THEN "page"
    ELSE ram_offset_for_addr(a)

mm_memmap_write(s, a) ==
    IF ~mm_prot_interceptor(s, "write", a) THEN "none"
    ELSE IF a \in {FlashNs, FlashS} THEN "flash"
    ELSE IF a \in {PageNs, PageS} THEN "page"
    ELSE ram_offset_for_addr(a)

\* Instructions come from flash and RAM only
mm_memmap_fetch_read16(s, a) ==
    IF ~mm_prot_interceptor(s, "exec", a) THEN "none"
    ELSE IF a \in {FlashNs, FlashS} THEN "flash"
    ELSE ram_offset_for_addr(a)

\* A refused Non-secure access leaves securefault_pending set
record_securefault(s, type, a) ==
    /\ Violates(s, type, a)
    /\ sfPending' = TRUE
    /\ UNCHANGED <<cpu, sau, mpu, mpcbb, given>>

\* What the registers let go, stated without the search for the deciding region:
\* a region that matches and whom no higher one overrules
LetGo(u, b) ==
    LET covers(i, a) == u.region[i].en /\ a \in u.region[i].base .. u.region[i].limit
        rules(i, a) == covers(i, a) /\ \A j \in DOMAIN u.region : j > i => ~covers(j, a)
        free(a) == u.allns /\ \A i \in DOMAIN u.region : ~covers(i, a)
        open(a, nsc) == u.enable /\ \/ free(a)
                                    \/ \E i \in DOMAIN u.region :
                                         rules(i, a) /\ (nsc \/ ~u.region[i].nsc)
    IN  {g \in {"fetch", "data", "ram", "page"} :
           CASE g = "fetch" -> open(FlashNs, TRUE) \/ open(FlashS, TRUE)
             [] g = "data" -> open(FlashNs, FALSE) \/ open(FlashS, FALSE)
             [] g = "page" -> open(PageNs, FALSE) \/ open(PageS, FALSE)
             [] OTHER -> IF cpu \in WithRamRegions THEN b.sec = b.inv
                        ELSE open(RamNs, TRUE) \/ open(RamS, TRUE)}

\* A store to the MPCBB's registers, which look at no security state themselves
mpcbb_write(s, a) ==
    /\ mm_memmap_write(s, a) = "page"
    /\ \/ mpcbb' = [mpcbb EXCEPT !.sec = ~@]
       \/ mpcbb' = [mpcbb EXCEPT !.inv = ~@]
    /\ given' = IF s = Secure THEN given \cup (LetGo(sau, mpcbb') \cap {"ram", "page"}) ELSE given
    /\ UNCHANGED <<cpu, sau, mpu, sfPending>>
stm32l552_mpcbb_write(s, a) == cpu = "stm32l552" /\ mpcbb_write(s, a)
stm32h563_mpcbb_write(s, a) == cpu = "stm32h563" /\ mpcbb_write(s, a)
stm32u585_mpcbb_write(s, a) == cpu = "stm32u585" /\ mpcbb_write(s, a)

-----------------------------------------------------------------------------
(* The registers of the SCS.  SAU registers take Secure writes only; the    *)
(* MPU's are banked, and Secure software reaches both banks.                *)

SetSau(u) ==
    /\ sau' = u
    /\ given' = given \cup (LetGo(u, mpcbb) \cap {"ram", "page"})
    /\ UNCHANGED <<cpu, mpu, mpcbb, sfPending>>

WriteSauCtrl == \E e, n \in BOOLEAN : SetSau([sau EXCEPT !.enable = e, !.allns = n])
WriteSauRnr == \E i \in 1 .. SauRegions[cpu] : SetSau([sau EXCEPT !.rnr = i])

\* SAU_RBAR; the value 0 is taken for a region number
WriteSauRbar ==
    \/ \E b \in Bounds : SetSau([sau EXCEPT !.region[sau.rnr].base = b])
    \/ SetSau([sau EXCEPT !.rnr = 1])

\* SAU_RLAR; a limit with neither ENABLE nor NSC is taken for a base
WriteSauRlar ==
    \E b \in Bounds, en, nsc \in BOOLEAN :
        IF en \/ nsc
          THEN SetSau([sau EXCEPT !.region[sau.rnr] =
                         [@ EXCEPT !.limit = b, !.en = en, !.nsc = nsc]])
          ELSE SetSau([sau EXCEPT !.region[sau.rnr].base = b])

WriteMpu ==
    /\ \E s \in SecStates, v \in MpuLimits : mpu' = [mpu EXCEPT ![s] = v]
    /\ UNCHANGED <<cpu, sau, mpcbb, sfPending, given>>

\* raise_mem_fault in Secure state takes a SecureFault when one is pending, be
\* it one of an earlier Non-secure access
TakeSecureFault ==
    /\ sfPending /\ sfPending' = FALSE
    /\ UNCHANGED <<cpu, sau, mpu, mpcbb, given>>

-----------------------------------------------------------------------------

MemAtReset ==
    /\ sau = SauAtReset
    /\ mpu = [s \in SecStates |-> 0]
    /\ mpcbb = [sec |-> TRUE, inv |-> FALSE]
    /\ sfPending = FALSE /\ given = {}
MemInit == TargetInit /\ MemAtReset

\* mm_scs_init and mpcbb_init_defaults
MemReset ==
    /\ sau' = SauAtReset
    /\ mpu' = [s \in SecStates |-> 0]
    /\ mpcbb' = [sec |-> TRUE, inv |-> FALSE]
    /\ sfPending' = FALSE /\ given' = {}
    /\ UNCHANGED cpu

MemNext ==
    \/ \E s \in SecStates, type \in AccessTypes, a \in MemAddrs :
         record_securefault(s, type, a)
    \/ \E s \in SecStates, a \in {PageNs, PageS} :
         \/ stm32l552_mpcbb_write(s, a) \/ stm32h563_mpcbb_write(s, a)
         \/ stm32u585_mpcbb_write(s, a)
    \/ WriteSauCtrl \/ WriteSauRnr \/ WriteSauRbar \/ WriteSauRlar \/ WriteMpu
    \/ TakeSecureFault \/ MemReset

MemSpec == MemInit /\ [][MemNext]_memVars

-----------------------------------------------------------------------------
(* Properties *)

MemTypeOK ==
    /\ cpu \in Targets
    /\ sau \in [enable : BOOLEAN, allns : BOOLEAN, rnr : 1 .. SauRegions[cpu],
                region : [1 .. SauRegions[cpu] -> SauRegion]]
    /\ mpu \in [SecStates -> MpuLimits \cup {0}]
    /\ mpcbb \in [sec : BOOLEAN, inv : BOOLEAN] /\ sfPending \in BOOLEAN
    /\ given \subseteq {"ram", "page"}

\* Non-secure software never reaches what Secure software has not let go.  It
\* executes flash only where the deciding region makes it Non-secure or Non-secure
\* callable, and reads or writes flash or the MPCBB's registers only where it makes
\* them Non-secure; a RAM block is open only if Secure software let it go, or let go
\* the MPCBB's registers, at some time since the reset.  The two addresses of a
\* cell open no way around (mm_prot_interceptor, mpcbb_attr_for_addr,
\* mm_sau_attr_for_addr).
NsReachesOnlyWhatWasGiven ==
    LET open == LetGo(sau, mpcbb)
        data == {mm_memmap_read(NonSecure, a) : a \in MemAddrs}
                  \cup {mm_memmap_write(NonSecure, a) : a \in MemAddrs}
        code == {mm_memmap_fetch_read16(NonSecure, a) : a \in MemAddrs}
    IN  /\ "flash" \in data => "data" \in open
        /\ "flash" \in code => "fetch" \in open
        /\ "page" \in data => "page" \in open
        /\ "ram" \in data \cup code => "ram" \in open /\ given # {}
=============================================================================
