---------------------------- MODULE FlashProofs -----------------------------
(***************************************************************************)
(* The image files that `--persist' writes back hold the flash, for any    *)
(* geometry, any images that do not overlap, and any sequence of erases,   *)
(* stores, failed opens, short writes, resets, reloads and crashes.         *)
(***************************************************************************)
EXTENDS TargetFlash, Induction

\* A file never outgrows the range of its image, so it provides no word of another
\* image's range.
FilesFit == \A i \in Images : Len(file[i]) <= EndOf(i) - ImageOffset[i]

\* What the flash owes the files while a flush is under way: the images that are
\* neither queued nor missed are in their files.
Restorable ==
    ~viaSecure => \A i \in Images \ (missed \cup flushq) :
                     \A w \in RangeOf(i) : Load(file)[w] = flash[w]

FlashInv == FlashTypeOK /\ FilesFit /\ Restorable

-----------------------------------------------------------------------------
(* Ranges.                                                                 *)

\* Offsets are words of the flash, images are numbered.
LEMMA Geometry ==
    /\ Cells \in Nat \ {0}
    /\ Images \subseteq Nat
    /\ \A i \in Images : ImageOffset[i] \in Nat /\ ImageOffset[i] < Cells /\ ImageOffset[i] \in Words
  <1>1. SectorWords \in Nat \ {0} /\ BankSectors \in Nat \ {0} /\ ImageOffset \in Seq(Words)
    BY FlashGeometry
  <1>2. Cells \in Nat /\ Cells # 0
    <2>1. BankSectors * SectorWords \in Nat /\ BankSectors * SectorWords # 0
      BY <1>1
    <2>2. Cells = 2 * (BankSectors * SectorWords)
      BY <1>1 DEF Cells
    <2>. QED
      BY <2>1, <2>2
  <1>3. Images = 1 .. Len(ImageOffset) /\ Len(ImageOffset) \in Nat
    BY <1>1 DEF Images
  <1>4. \A i \in Images : ImageOffset[i] \in Words
    BY <1>1, <1>3
  <1>. QED
    BY <1>2, <1>3, <1>4 DEF Words

\* The range of an image ends at the next offset, or with the flash.
LEMMA EndOfIsNext ==
    ASSUME NEW i \in Images
    PROVE  /\ EndOf(i) \in Nat /\ EndOf(i) > ImageOffset[i] /\ EndOf(i) <= Cells
           /\ \A j \in Images : ImageOffset[j] > ImageOffset[i] => EndOf(i) <= ImageOffset[j]
  <1>. DEFINE ends == {ImageOffset[j] : j \in {k \in Images : ImageOffset[k] > ImageOffset[i]}}
                         \cup {Cells}
  <1>1. ends \subseteq Nat /\ Cells \in ends /\ \A e \in ends : e > ImageOffset[i]
    BY Geometry
  <1>2. \E e \in ends : \A f \in ends : e <= f
    <2>. HIDE DEF ends
    <2>. QED
      BY <1>1, LeastMember
  <1>3. EndOf(i) = CHOOSE e \in ends : \A f \in ends : e <= f
    BY DEF EndOf
  <1>4. EndOf(i) \in ends /\ \A f \in ends : EndOf(i) <= f
    <2>. HIDE DEF ends
    <2>. QED
      BY <1>2, <1>3
  <1>5. \A j \in Images : ImageOffset[j] > ImageOffset[i] => ImageOffset[j] \in ends
    OBVIOUS
  <1>. HIDE DEF ends
  <1>. QED
    BY <1>1, <1>4, <1>5

\* The words of a range are words of the flash.
LEMMA RangeIsWords ==
    ASSUME NEW i \in Images, NEW w \in RangeOf(i)
    PROVE  /\ w \in Words /\ w \in Int
           /\ w - ImageOffset[i] \in Nat
           /\ (w - ImageOffset[i]) + 1 \in 1 .. EndOf(i) - ImageOffset[i]
  BY EndOfIsNext, Geometry DEF RangeOf, Words

\* A word of the range of i is loaded from file i, or stays erased when the file is
\* too short.
LEMMA LoadIsOwnFile ==
    ASSUME NEW files \in [Images -> Seq(Value)],
           \A i \in Images : Len(files[i]) <= EndOf(i) - ImageOffset[i],
           NEW i \in Images, NEW w \in RangeOf(i)
    PROVE  Load(files)[w] = IF w - ImageOffset[i] < Len(files[i])
                            THEN files[i][w - ImageOffset[i] + 1] ELSE Erased
  <1>. DEFINE from == {j \in Images : Provides(files, j, w)}
              last == CHOOSE j \in from : \A k \in from : k <= j
  <1>1. w \in Words /\ w \in Int /\ w - ImageOffset[i] \in Nat
    BY RangeIsWords
  <1>2. Load(files)[w] = IF from = {} THEN Erased ELSE files[last][w - ImageOffset[last] + 1]
    BY <1>1 DEF Load
  <1>3. ASSUME NEW j \in Images, Provides(files, j, w)
        PROVE  j = i
    <2>0. ImageOffset[i] \in Nat /\ ImageOffset[j] \in Nat /\ EndOf(i) \in Nat /\ EndOf(j) \in Nat
      BY Geometry, EndOfIsNext
    <2>1. Len(files[j]) \in Nat /\ Len(files[j]) <= EndOf(j) - ImageOffset[j]
      OBVIOUS
    <2>2. ImageOffset[j] <= w /\ w < EndOf(j)
      BY <1>1, <1>3, <2>0, <2>1 DEF Provides
    <2>3. ImageOffset[i] <= w /\ w < EndOf(i)
      BY <1>1, <2>0 DEF RangeOf
    <2>4. ~(ImageOffset[j] > ImageOffset[i])
      BY <1>1, <2>0, <2>2, <2>3, EndOfIsNext
    <2>5. ~(ImageOffset[i] > ImageOffset[j])
      BY <1>1, <2>0, <2>2, <2>3, EndOfIsNext
    <2>6. ImageOffset[i] = ImageOffset[j]
      BY <2>0, <2>4, <2>5
    <2>. QED
      BY <2>6, FlashGeometry
  <1>4. Provides(files, i, w) <=> w - ImageOffset[i] < Len(files[i])
    <2>1. Len(files[i]) \in Nat
      OBVIOUS
    <2>. QED
      BY <1>1, <2>1 DEF Provides
  <1>5. CASE Provides(files, i, w)
    <2>1. from = {i} /\ i \in Nat
      BY <1>3, <1>5, Geometry
    <2>2. last = i
      <3>. HIDE DEF from
      <3>. QED
        BY <2>1
    <2>. QED
      BY <1>2, <1>4, <1>5, <2>1, <2>2
  <1>6. CASE ~Provides(files, i, w)
    <2>1. from = {}
      BY <1>3, <1>6
    <2>. QED
      BY <1>2, <1>4, <1>6, <2>1
  <1>. QED
    BY <1>5, <1>6

\* Replacing the file of another image changes nothing in the range of i.
LEMMA LoadOther ==
    ASSUME NEW files \in [Images -> Seq(Value)], NEW other \in [Images -> Seq(Value)],
           \A i \in Images : Len(files[i]) <= EndOf(i) - ImageOffset[i],
           \A i \in Images : Len(other[i]) <= EndOf(i) - ImageOffset[i],
           NEW i \in Images, files[i] = other[i], NEW w \in RangeOf(i)
    PROVE  Load(files)[w] = Load(other)[w]
  BY LoadIsOwnFile, Zenon

\* A loaded flash holds words.
LEMMA LoadType ==
    ASSUME NEW files \in [Images -> Seq(Value)]
    PROVE  Load(files) \in [Words -> Value]
  <1>1. ASSUME NEW w \in Words
        PROVE  Load(files)[w] \in Value
    <2>. DEFINE from == {j \in Images : Provides(files, j, w)}
                last == CHOOSE j \in from : \A k \in from : k <= j
    <2>1. Load(files)[w] = IF from = {} THEN Erased ELSE files[last][w - ImageOffset[last] + 1]
      BY DEF Load
    <2>2. CASE from = {}
      BY <2>1, <2>2 DEF Erased, Value
    <2>3. CASE from # {}
      <3>1. ImageOffset \in Seq(Words)
        BY FlashGeometry
      <3>2. Images = 1 .. Len(ImageOffset) /\ Len(ImageOffset) \in Nat
        BY <3>1 DEF Images
      <3>3. from \subseteq 0 .. Len(ImageOffset)
        BY <3>2
      <3>4. \E j \in from : \A k \in from : k <= j
        <4>. HIDE DEF from
        <4>. QED
          BY <2>3, <3>2, <3>3, GreatestMember
      <3>5. last \in from
        <4>. HIDE DEF from
        <4>. QED
          BY <3>4
      <3>6. last \in Images /\ Provides(files, last, w)
        <4>. HIDE DEF last
        <4>. QED
          BY <3>5
      <3>. HIDE DEF last
      <3>7. files[last] \in Seq(Value) /\ Len(files[last]) \in Nat
        BY <3>6
      <3>8. w - ImageOffset[last] + 1 \in 1 .. Len(files[last])
        BY <3>6, <3>7 DEF Provides
      <3>9. files[last][w - ImageOffset[last] + 1] \in Value
        BY <3>7, <3>8
      <3>. QED
        BY <2>1, <2>3, <3>9
    <2>. QED
      BY <2>2, <2>3
  <1>. QED
    BY <1>1 DEF Load

\* The next image to be flushed is one of the queue.
LEMMA LeastIsQueued ==
    ASSUME NEW q \in SUBSET Images, q # {}
    PROVE  Least(q) \in q
  <1>. DEFINE offs == {ImageOffset[i] : i \in q}
  <1>1. offs \subseteq Nat /\ offs # {}
    BY Geometry
  <1>2. PICK x \in offs : \A y \in offs : x <= y
    <2>. HIDE DEF offs
    <2>. QED
      BY <1>1, LeastMember
  <1>3. \E i \in q : \A j \in q : ImageOffset[i] <= ImageOffset[j]
    BY <1>2
  <1>. QED
    BY <1>3 DEF Least

\* What a flush writes for image i is a file that fits and holds its range.
LEMMA ContentsHoldRange ==
    ASSUME FlashTypeOK, NEW i \in Images
    PROVE  /\ Contents(i) \in Seq(Value)
           /\ Len(Contents(i)) = EndOf(i) - ImageOffset[i]
           /\ \A w \in RangeOf(i) : Contents(i)[w - ImageOffset[i] + 1] = flash[w]
  <1>. DEFINE n == EndOf(i) - ImageOffset[i]
  <1>1. n \in Nat /\ ImageOffset[i] \in Nat /\ EndOf(i) \in Nat /\ EndOf(i) <= Cells /\ Cells \in Nat
    BY EndOfIsNext, Geometry
  <1>2. \A k \in 1 .. n : ImageOffset[i] + k - 1 \in Words
    BY <1>1 DEF Words
  <1>3. flash \in [Words -> Value]
    BY DEF FlashTypeOK
  <1>4. Contents(i) = [k \in 1 .. n |-> flash[ImageOffset[i] + k - 1]]
    BY DEF Contents
  <1>5. ASSUME NEW w \in RangeOf(i)
        PROVE  Contents(i)[w - ImageOffset[i] + 1] = flash[w]
    <2>1. w \in Int /\ (w - ImageOffset[i]) + 1 \in 1 .. n
      BY RangeIsWords
    <2>2. ImageOffset[i] + (w - ImageOffset[i] + 1) - 1 = w
      BY <1>1, <2>1
    <2>. HIDE DEF n
    <2>. QED
      BY <1>4, <2>1, <2>2
  <1>. HIDE DEF n
  <1>6. Contents(i) \in [1 .. n -> Value]
    BY <1>2, <1>3, <1>4
  <1>7. Contents(i) \in Seq(Value) /\ Len(Contents(i)) = n
    BY <1>1, <1>6
  <1>. QED
    BY <1>5, <1>7 DEF n

-----------------------------------------------------------------------------
(* The invariant.                                                          *)

\* A change of the array outside a flush keeps every image restorable that the flush it
\* starts does not queue: the words that change are the ones it looks up ranges for.
LEMMA ChangeRestorable ==
    ASSUME FlashInv, Idle, NEW new \in [Words -> Value], NEW changed,
           \A w \in Words \ changed : new[w] = flash[w],
           Change(new, changed), UNCHANGED <<file, missed, viaSecure>>
    PROVE  Restorable' /\ FilesFit' /\ flash' \in [Words -> Value] /\ flushq' \subseteq Images
  <1>1. flash' = new /\ flushq' = Touched(changed) /\ file' = file /\ missed' = missed
          /\ viaSecure' = viaSecure /\ flushq = {}
    BY DEF Change, Idle
  <1>2. flushq' \subseteq Images /\ FilesFit'
    BY <1>1 DEF Touched, FlashInv, FilesFit
  <1>3. ASSUME ~viaSecure', NEW i \in Images \ (missed' \cup flushq'), NEW w \in RangeOf(i)
        PROVE  Load(file')[w] = flash'[w]
    <2>1. w \in Words /\ w \notin changed
      BY <1>1, <1>3, RangeIsWords DEF Touched
    <2>2. Load(file)[w] = flash[w]
      BY <1>1, <1>3 DEF FlashInv, Restorable
    <2>. QED
      BY <1>1, <2>1, <2>2
  <1>4. Restorable'
    BY <1>3 DEF Restorable
  <1>. QED
    BY <1>1, <1>2, <1>4

\* A step that leaves the array, the files and the queue alone.
LEMMA NoChangeRestorable ==
    ASSUME FlashInv, UNCHANGED <<flash, file, flushq, missed, viaSecure>>
    PROVE  Restorable' /\ FilesFit' /\ flash' \in [Words -> Value] /\ flushq' \subseteq Images
  BY DEF FlashInv, Restorable, FilesFit, FlashTypeOK

\* Loading the files makes every image restorable.
LEMMA LoadRestorable ==
    ASSUME FlashInv, flash' = Load(file), flushq' \subseteq Images, UNCHANGED file
    PROVE  Restorable' /\ FilesFit' /\ flash' \in [Words -> Value]
  BY LoadType DEF FlashInv, Restorable, FilesFit, FlashTypeOK

\* A write to the STM32 controller's registers.
LEMMA StmRegisterStep ==
    ASSUME FlashInv, NEW s \in SecStates, flash_write(s)
    PROVE  FlashInv'
  <1>. USE DEF FlashInv
  <1>0. Idle /\ UNCHANGED <<cpu, wen, bound, file, isOpen, missed, faults, viaSecure>>
    BY DEF flash_write
  <1>1. /\ ctl' \in [SecStates -> [locked : BOOLEAN, pg : BOOLEAN, stage : {0, 1}]]
        /\ Restorable' /\ FilesFit' /\ flash' \in [Words -> Value] /\ flushq' \subseteq Images
        /\ isOpen => flushq' # {}
    <2>0. /\ ctl \in [SecStates -> [locked : BOOLEAN, pg : BOOLEAN, stage : {0, 1}]]
          /\ flash \in [Words -> Value] /\ ~isOpen
      BY <1>0 DEF FlashTypeOK, Idle
    <2>1. CASE \E key \in {"KEY1", "KEY2", "other"} : flash_handle_key(s, key)
      <3>1. PICK key \in {"KEY1", "KEY2", "other"} : flash_handle_key(s, key)
        BY <2>1
      <3>2. UNCHANGED <<flash, flushq>>
        BY <3>1 DEF flash_handle_key, NoChange
      <3>3. ctl' \in [SecStates -> [locked : BOOLEAN, pg : BOOLEAN, stage : {0, 1}]]
        BY <2>0, <3>1 DEF flash_handle_key
      <3>. QED
        BY <1>0, <2>0, <3>2, <3>3, NoChangeRestorable
    <2>2. CASE \E cr \in CrValue : flash_write_cr(s, cr)
      <3>1. PICK cr \in CrValue : flash_write_cr(s, cr)
        BY <2>2
      <3>2. CASE ctl[s].locked /\ ~cr.lock
        <4>1. UNCHANGED <<flash, flushq, ctl>>
          BY <3>1, <3>2 DEF flash_write_cr, NoChange
        <4>. QED
          BY <1>0, <2>0, <4>1, NoChangeRestorable
      <3>3. CASE ~(ctl[s].locked /\ ~cr.lock)
        <4>. DEFINE erased == IF cr.strt THEN EraseWords(cr) ELSE {}
                    new == [w \in Words |-> IF w \in erased THEN Erased ELSE flash[w]]
        <4>1. /\ ctl' = [ctl EXCEPT ![s] = [@ EXCEPT !.locked = cr.lock, !.pg = cr.op = "pg"]]
              /\ Change(new, erased)
          BY <3>1, <3>3 DEF flash_write_cr
        <4>2. new \in [Words -> Value] /\ \A w \in Words \ erased : new[w] = flash[w]
          <5>. HIDE DEF erased
          <5>. QED
            BY <2>0 DEF Erased, Value
        <4>3. cr.lock \in BOOLEAN
          BY DEF CrValue
        <4>4. ctl' \in [SecStates -> [locked : BOOLEAN, pg : BOOLEAN, stage : {0, 1}]]
          <5>. DEFINE pg == cr.op = "pg"
          <5>1. pg \in BOOLEAN
            OBVIOUS
          <5>2. ctl' = [ctl EXCEPT ![s] = [ctl[s] EXCEPT !.locked = cr.lock, !.pg = pg]]
            BY <4>1
          <5>. HIDE DEF pg
          <5>. QED
            BY <2>0, <4>3, <5>1, <5>2
        <4>. HIDE DEF new, erased
        <4>. QED
          BY <1>0, <2>0, <4>1, <4>2, <4>4, ChangeRestorable
      <3>. QED
        BY <3>2, <3>3
    <2>. QED
      BY <2>1, <2>2 DEF flash_write
  <1>. QED
    BY <1>0, <1>1 DEF FlashTypeOK

\* A store to the flash of an STM32.
LEMMA StmStoreStep ==
    ASSUME FlashInv, NEW s \in SecStates, NEW w \in Words, NEW v \in Value,
           flash_write_cb(s, w, v)
    PROVE  FlashInv'
  <1>. USE DEF FlashInv
  <1>0. /\ Idle
        /\ UNCHANGED <<cpu, ctl, wen, bound, file, isOpen, missed, faults, viaSecure>>
        /\ flash \in [Words -> Value] /\ ~isOpen
    BY DEF flash_write_cb, FlashTypeOK, Idle
  <1>1. /\ Restorable' /\ FilesFit' /\ flash' \in [Words -> Value] /\ flushq' \subseteq Images
    <2>. DEFINE new == [flash EXCEPT ![w] = v]
    <2>1. CASE Change(new, {w})
      <3>1. new \in [Words -> Value] /\ \A x \in Words \ {w} : new[x] = flash[x]
        BY <1>0
      <3>. HIDE DEF new
      <3>. QED
        BY <1>0, <2>1, <3>1, ChangeRestorable
    <2>2. CASE NoChange
      BY <1>0, <2>2, NoChangeRestorable DEF NoChange
    <2>. QED
      BY <2>1, <2>2 DEF flash_write_cb
  <1>. QED
    BY <1>0, <1>1 DEF FlashTypeOK

\* A change of the nRF5340's flash at either alias: at the Secure one no range is found
\* and nothing is promised from then on.
LEMMA NvmcRestorable ==
    ASSUME FlashInv, Idle, NEW alias \in SecStates, NEW new \in [Words -> Value], NEW changed,
           \A w \in Words \ changed : new[w] = flash[w],
           NvmcChange(alias, new, changed), UNCHANGED <<file, missed>>
    PROVE  /\ Restorable' /\ FilesFit' /\ flash' \in [Words -> Value] /\ flushq' \subseteq Images
           /\ viaSecure' \in BOOLEAN
  <1>1. CASE alias = NonSecure
    <2>1. Change(new, changed) /\ UNCHANGED viaSecure
      BY <1>1 DEF NvmcChange, Secure, NonSecure, FlashInv, FlashTypeOK
    <2>2. viaSecure \in BOOLEAN
      BY DEF FlashInv, FlashTypeOK
    <2>. QED
      BY <2>1, <2>2, ChangeRestorable
  <1>2. CASE alias = Secure
    <2>1. viaSecure' = TRUE /\ flash' = new /\ flushq' = Touched({})
      BY <1>2 DEF NvmcChange, Change, Secure, NonSecure
    <2>. QED
      BY <2>1 DEF Restorable, FilesFit, FlashInv, Touched
  <1>. QED
    BY <1>1, <1>2 DEF SecStates

\* The nRF5340's stores, page erases and full erase.
LEMMA NvmcStep ==
    ASSUME FlashInv,
           \/ \E a \in SecStates, w \in Words, v \in Value : nvmc_write_cb(a, w, v)
           \/ \E a \in SecStates, w \in Words : nvmc_erase_page(a, w)
           \/ nvmc_erase_all
    PROVE  FlashInv'
  <1>. USE DEF FlashInv
  <1>0. flash \in [Words -> Value] /\ viaSecure \in BOOLEAN
    BY DEF FlashTypeOK
  <1>1. /\ Idle /\ UNCHANGED <<cpu, ctl, wen, bound, file, isOpen, missed, faults>>
    BY DEF nvmc_write_cb, nvmc_erase_page, nvmc_erase_all
  <1>2. ~isOpen
    BY <1>1 DEF FlashTypeOK, Idle
  <1>. DEFINE Kept == /\ Restorable' /\ FilesFit' /\ flash' \in [Words -> Value]
                      /\ flushq' \subseteq Images /\ viaSecure' \in BOOLEAN
  <1>3. ASSUME NEW a \in SecStates, NEW w \in Words, NEW v \in Value, nvmc_write_cb(a, w, v)
        PROVE  Kept
    <2>. DEFINE new == [flash EXCEPT ![w] = @ \cap v]
    <2>1. CASE NvmcChange(a, new, {w})
      <3>1. new \in [Words -> Value] /\ \A x \in Words \ {w} : new[x] = flash[x]
        BY <1>0 DEF Value
      <3>. HIDE DEF new
      <3>. QED
        BY <1>1, <2>1, <3>1, NvmcRestorable
    <2>2. CASE NoChange /\ UNCHANGED viaSecure
      BY <1>0, <1>1, <2>2, NoChangeRestorable DEF NoChange
    <2>. QED
      BY <1>3, <2>1, <2>2 DEF nvmc_write_cb
  <1>4. ASSUME NEW a \in SecStates, NEW w \in Words, nvmc_erase_page(a, w)
        PROVE  Kept
    <2>. DEFINE new == [x \in Words |-> IF x \in SectorOf(w) THEN Erased ELSE flash[x]]
    <2>1. NvmcChange(a, new, SectorOf(w))
      BY <1>4 DEF nvmc_erase_page
    <2>2. new \in [Words -> Value] /\ \A x \in Words \ SectorOf(w) : new[x] = flash[x]
      BY <1>0 DEF Erased, Value
    <2>. HIDE DEF new
    <2>. QED
      BY <1>1, <2>1, <2>2, NvmcRestorable
  <1>5. ASSUME nvmc_erase_all
        PROVE  Kept
    <2>. DEFINE new == [x \in Words |-> Erased]
    <2>1. NvmcChange(NonSecure, new, Words) /\ NonSecure \in SecStates
      BY <1>5 DEF nvmc_erase_all, SecStates
    <2>2. new \in [Words -> Value] /\ \A x \in Words \ Words : new[x] = flash[x]
      BY DEF Erased, Value
    <2>. HIDE DEF new
    <2>3. UNCHANGED <<file, missed>>
      BY <1>1
    <2>. QED
      BY <1>1, <2>1, <2>2, <2>3, NvmcRestorable, Zenon
  <1>6. Kept
    <2>. HIDE DEF Kept
    <2>1. CASE \E a \in SecStates, w \in Words, v \in Value : nvmc_write_cb(a, w, v)
      BY <1>3, <2>1
    <2>2. CASE \E a \in SecStates, w \in Words : nvmc_erase_page(a, w)
      BY <1>4, <2>2
    <2>. QED
      BY <1>5, <2>1, <2>2
  <1>. QED
    BY <1>1, <1>2, <1>6 DEF FlashTypeOK

\* The steps of a flush: an image leaves the queue with its range in its file, or missed.
LEMMA FlushStep ==
    ASSUME FlashInv,
           FlushOpen \/ FlushOpenFails \/ FlushPart \/ FlushShortWrite \/ FlushWrite
    PROVE  FlashInv'
  <1>. DEFINE i == Least(flushq)
  <1>0. /\ flushq # {} /\ flushq \subseteq Images /\ file \in [Images -> Seq(Value)]
        /\ UNCHANGED <<cpu, flash, ctl, wen, bound, viaSecure>>
        /\ FilesFit /\ Restorable /\ missed \subseteq Images
    BY DEF FlushOpen, FlushOpenFails, FlushPart, FlushShortWrite, FlushWrite, flushTail,
           FlashInv, FlashTypeOK
  <1>1. i \in flushq /\ i \in Images
    BY <1>0, LeastIsQueued
  <1>. HIDE DEF i
  <1>a. EndOf(i) - ImageOffset[i] \in Nat
    BY <1>1, EndOfIsNext, Geometry
  <1>. DEFINE f == file'[i]
  <1>2. ASSUME f \in Seq(Value), Len(f) <= EndOf(i) - ImageOffset[i],
               file' = [file EXCEPT ![i] = f]
        PROVE  /\ file' \in [Images -> Seq(Value)] /\ FilesFit'
               /\ \A j \in Images \ {i} : \A w \in RangeOf(j) : Load(file')[w] = Load(file)[w]
    <2>1. file' \in [Images -> Seq(Value)] /\ (\A j \in Images \ {i} : file'[j] = file[j])
      BY <1>0, <1>1, <1>2
    <2>2. FilesFit'
      BY <1>0, <1>2, <2>1 DEF FilesFit
    <2>3. ASSUME NEW j \in Images \ {i}, NEW w \in RangeOf(j)
          PROVE  Load(file')[w] = Load(file)[w]
      <3>1. /\ \A k \in Images : Len(file[k]) <= EndOf(k) - ImageOffset[k]
            /\ \A k \in Images : Len(file'[k]) <= EndOf(k) - ImageOffset[k]
        BY <1>0, <2>2 DEF FilesFit
      <3>2. j \in Images /\ file'[j] = file[j]
        BY <2>1
      <3>. QED
        BY <1>0, <2>1, <3>1, <3>2, LoadOther
    <2>. QED
      BY <2>1, <2>2, <2>3
  <1>3. CASE FlushOpen
    <2>1. /\ file' = [file EXCEPT ![i] = <<>>] /\ UNCHANGED <<flushq, missed, faults>>
          /\ isOpen' = TRUE
      BY <1>3 DEF FlushOpen, i
    <2>2. f = <<>> /\ f \in Seq(Value) /\ Len(f) = 0
      BY <1>0, <1>1, <2>1
    <2>3. /\ file' \in [Images -> Seq(Value)] /\ FilesFit'
          /\ \A j \in Images \ {i} : \A w \in RangeOf(j) : Load(file')[w] = Load(file)[w]
      <3>1. f \in Seq(Value) /\ Len(f) <= EndOf(i) - ImageOffset[i]
        <4>. HIDE DEF f
        <4>. QED
          BY <1>a, <2>2
      <3>2. file' = [file EXCEPT ![i] = f]
        BY <2>1, <2>2, Zenon
      <3>. QED
        BY <1>2, <3>1, <3>2, Zenon
    <2>4. Restorable'
      <3>1. ASSUME ~viaSecure', NEW j \in Images \ (missed' \cup flushq'), NEW w \in RangeOf(j)
            PROVE  Load(file')[w] = flash'[w]
        <4>1. j \in Images \ {i} /\ j \in Images \ (missed \cup flushq) /\ ~viaSecure
          BY <1>0, <1>1, <2>1, <3>1
        <4>. QED
          BY <1>0, <2>3, <4>1 DEF Restorable
      <3>. QED
        BY <3>1 DEF Restorable
    <2>. QED
      BY <1>0, <2>1, <2>3, <2>4 DEF FlashInv, FlashTypeOK
  <1>4. CASE FlushOpenFails
    <2>1. /\ faults < MaxFaults /\ faults' = faults + 1 /\ flushq' = flushq \ {i}
          /\ missed' = missed \cup {i} /\ UNCHANGED <<file, isOpen>> /\ ~isOpen
      BY <1>4 DEF FlushOpenFails, i
    <2>2. Restorable' /\ FilesFit'
      BY <1>0, <2>1 DEF Restorable, FilesFit
    <2>3. faults' \in 0 .. MaxFaults
      BY <2>1, FaultsAssumption DEF FlashInv, FlashTypeOK
    <2>. QED
      BY <1>0, <1>1, <2>1, <2>2, <2>3 DEF FlashInv, FlashTypeOK
  <1>5. CASE FlushWrite
    <2>1. /\ file' = [file EXCEPT ![i] = Contents(i)] /\ missed' = missed \ {i}
          /\ flushq' = flushq \ {i} /\ isOpen' = FALSE /\ UNCHANGED faults
      BY <1>5 DEF FlushWrite, i
    <2>2. /\ Contents(i) \in Seq(Value) /\ Len(Contents(i)) = EndOf(i) - ImageOffset[i]
          /\ \A w \in RangeOf(i) : Contents(i)[w - ImageOffset[i] + 1] = flash[w]
      BY <1>1, ContentsHoldRange DEF FlashInv
    <2>3. /\ file' \in [Images -> Seq(Value)] /\ FilesFit'
          /\ \A j \in Images \ {i} : \A w \in RangeOf(j) : Load(file')[w] = Load(file)[w]
      <3>1. f = Contents(i)
        BY <1>0, <1>1, <2>1
      <3>2. f \in Seq(Value) /\ Len(f) <= EndOf(i) - ImageOffset[i]
        <4>. HIDE DEF f
        <4>. QED
          BY <1>a, <2>2, <3>1
      <3>3. file' = [file EXCEPT ![i] = f]
        BY <2>1, <3>1, Zenon
      <3>. QED
        BY <1>2, <3>2, <3>3, Zenon
    <2>4. ASSUME NEW w \in RangeOf(i)
          PROVE  Load(file')[w] = flash[w]
      <3>1. file'[i] = Contents(i)
        BY <1>0, <1>1, <2>1
      <3>2. \A k \in Images : Len(file'[k]) <= EndOf(k) - ImageOffset[k]
        BY <2>3 DEF FilesFit
      <3>3. Load(file')[w] = IF w - ImageOffset[i] < Len(file'[i])
                             THEN file'[i][w - ImageOffset[i] + 1] ELSE Erased
        BY <1>1, <2>3, <3>2, LoadIsOwnFile
      <3>4. w - ImageOffset[i] < Len(file'[i])
        BY <1>1, <1>a, <2>2, <3>1, RangeIsWords
      <3>. QED
        BY <2>2, <3>1, <3>3, <3>4
    <2>5. Restorable'
      <3>1. ASSUME ~viaSecure', NEW j \in Images \ (missed' \cup flushq'), NEW w \in RangeOf(j)
            PROVE  Load(file')[w] = flash'[w]
        <4>1. CASE j = i
          BY <1>0, <2>4, <4>1
        <4>2. CASE j # i
          <5>1. j \in Images \ {i} /\ j \in Images \ (missed \cup flushq) /\ ~viaSecure
            BY <1>0, <2>1, <3>1, <4>2
          <5>. QED
            BY <1>0, <2>3, <5>1 DEF Restorable
        <4>. QED
          BY <4>1, <4>2
      <3>. QED
        BY <3>1 DEF Restorable
    <2>. QED
      BY <1>0, <2>1, <2>3, <2>5 DEF FlashInv, FlashTypeOK
  <1>6. CASE FlushPart
    <2>1. PICK n \in Len(file[i]) + 1 .. Len(Contents(i)) - 1 :
             file' = [file EXCEPT ![i] = SubSeq(Contents(i), 1, n)]
      BY <1>6 DEF FlushPart, i
    <2>2. UNCHANGED <<flushq, isOpen, missed, faults>>
      BY <1>6 DEF FlushPart
    <2>3. Contents(i) \in Seq(Value) /\ Len(Contents(i)) = EndOf(i) - ImageOffset[i]
      BY <1>1, ContentsHoldRange DEF FlashInv
    <2>. HIDE DEF f
    <2>4. Len(file[i]) \in Nat /\ Len(Contents(i)) \in Nat
      BY <1>0, <1>1, <2>3
    <2>5. n \in 1 .. Len(Contents(i))
      BY <2>4
    <2>6. /\ SubSeq(Contents(i), 1, n) \in Seq(Value)
          /\ Len(SubSeq(Contents(i), 1, n)) = n
      BY <2>3, <2>5
    <2>7. f = SubSeq(Contents(i), 1, n)
      BY <1>0, <1>1, <2>1 DEF f
    <2>8. /\ file' \in [Images -> Seq(Value)] /\ FilesFit'
          /\ \A j \in Images \ {i} : \A w \in RangeOf(j) : Load(file')[w] = Load(file)[w]
      <3>1. f \in Seq(Value) /\ Len(f) <= EndOf(i) - ImageOffset[i]
        BY <2>3, <2>5, <2>6, <2>7
      <3>2. file' = [file EXCEPT ![i] = f]
        BY <2>1, <2>7, Zenon
      <3>. QED
        BY <1>2, <3>1, <3>2, Zenon DEF f
    <2>9. Restorable'
      <3>1. ASSUME ~viaSecure', NEW j \in Images \ (missed' \cup flushq'), NEW w \in RangeOf(j)
            PROVE  Load(file')[w] = flash'[w]
        <4>1. j \in Images \ {i} /\ j \in Images \ (missed \cup flushq) /\ ~viaSecure
          BY <1>0, <1>1, <2>2, <3>1
        <4>. QED
          BY <1>0, <2>8, <4>1 DEF Restorable
      <3>. QED
        BY <3>1 DEF Restorable
    <2>. QED
      BY <1>0, <2>2, <2>8, <2>9 DEF FlashInv, FlashTypeOK
  <1>7. CASE FlushShortWrite
    <2>1. /\ faults < MaxFaults /\ faults' = faults + 1 /\ flushq' = flushq \ {i}
          /\ missed' = missed \cup {i} /\ isOpen' = FALSE /\ UNCHANGED file
      BY <1>7 DEF FlushShortWrite, i
    <2>2. Restorable' /\ FilesFit'
      BY <1>0, <2>1 DEF Restorable, FilesFit
    <2>3. faults' \in 0 .. MaxFaults
      BY <2>1, FaultsAssumption DEF FlashInv, FlashTypeOK
    <2>. QED
      BY <1>0, <1>1, <2>1, <2>2, <2>3 DEF FlashInv, FlashTypeOK
  <1>. QED
    BY <1>3, <1>4, <1>5, <1>6, <1>7

\* A reset of the target and a restart of the emulator.
LEMMA BootStep ==
    ASSUME FlashInv, (\E reload \in BOOLEAN : SystemReset(reload)) \/ Crash
    PROVE  FlashInv'
  <1>1. /\ ctl' \in [SecStates -> [locked : BOOLEAN, pg : BOOLEAN, stage : {0, 1}]]
        /\ wen' \in [SecStates -> 0 .. 2]
    <2>1. PowerOn
      BY DEF SystemReset, Crash
    <2>. QED
      BY <2>1 DEF PowerOn, ResetCtl
  <1>2. ASSUME NEW reload \in BOOLEAN, SystemReset(reload)
        PROVE  FlashInv'
    <2>1. Idle /\ UNCHANGED <<cpu, file, flushq, isOpen, faults>>
      BY <1>2 DEF SystemReset
    <2>2. CASE reload
      <3>1. flash' = Load(file) /\ missed' = {} /\ viaSecure' = FALSE /\ flushq' \subseteq Images
        BY <1>2, <2>2 DEF SystemReset, FlashInv, FlashTypeOK
      <3>2. Restorable' /\ FilesFit' /\ flash' \in [Words -> Value]
        BY <2>1, <3>1, LoadRestorable
      <3>. QED
        BY <1>1, <2>1, <3>1, <3>2 DEF FlashInv, FlashTypeOK
    <2>3. CASE ~reload
      <3>1. UNCHANGED <<flash, missed, viaSecure>>
        BY <1>2, <2>3 DEF SystemReset, FlashInv, FlashTypeOK
      <3>2. Restorable' /\ FilesFit' /\ flash' \in [Words -> Value]
        BY <2>1, <3>1, NoChangeRestorable
      <3>. QED
        BY <1>1, <2>1, <3>1, <3>2 DEF FlashInv, FlashTypeOK
    <2>. QED
      BY <2>2, <2>3
  <1>3. CASE Crash
    <2>1. /\ flash' = Load(file) /\ flushq' = {} /\ isOpen' = FALSE /\ viaSecure' = FALSE
          /\ missed' = {} /\ UNCHANGED <<cpu, file>> /\ faults < MaxFaults /\ faults' = faults + 1
      BY <1>3 DEF Crash
    <2>2. Restorable' /\ FilesFit' /\ flash' \in [Words -> Value]
      BY <2>1, LoadRestorable
    <2>3. faults' \in 0 .. MaxFaults
      BY <2>1, FaultsAssumption DEF FlashInv, FlashTypeOK
    <2>. QED
      BY <1>1, <2>1, <2>2, <2>3 DEF FlashInv, FlashTypeOK
  <1>. QED
    BY <1>2, <1>3

\* The invariant holds.
LEMMA FlashInvariant == FlashSpec => []FlashInv
  <1>1. FlashInit => FlashInv
    <2>. SUFFICES ASSUME FlashInit PROVE FlashInv
      OBVIOUS
    <2>1. file = ImageFile /\ flash = Load(file) /\ flushq = {} /\ missed = {}
      BY DEF FlashInit
    <2>2. file \in [Images -> Seq(Value)] /\ FilesFit
      BY <2>1, ImagesFit DEF FilesFit
    <2>3. flash \in [Words -> Value]
      BY <2>1, <2>2, LoadType
    <2>4. Restorable
      BY <2>1 DEF Restorable
    <2>5. FlashTypeOK
      <3>1. 0 \in 0 .. MaxFaults
        BY FaultsAssumption
      <3>2. /\ ctl \in [SecStates -> [locked : BOOLEAN, pg : BOOLEAN, stage : {0, 1}]]
            /\ wen \in [SecStates -> 0 .. 2]
        BY DEF FlashInit, ResetCtl
      <3>3. cpu \in Targets /\ isOpen = FALSE /\ viaSecure = FALSE /\ faults = 0
        BY DEF FlashInit, TargetInit
      <3>. QED
        BY <2>1, <2>2, <2>3, <3>1, <3>2, <3>3 DEF FlashTypeOK
    <2>. QED
      BY <2>2, <2>4, <2>5 DEF FlashInv
  <1>2. FlashInv /\ [FlashNext]_flashVars => FlashInv'
    <2>. SUFFICES ASSUME FlashInv, [FlashNext]_flashVars PROVE FlashInv'
      OBVIOUS
    <2>1. ASSUME NEW s \in SecStates,
                 stm32l552_flash_write(s) \/ stm32h563_flash_write(s) \/ stm32u585_flash_write(s)
          PROVE  FlashInv'
      BY <2>1, StmRegisterStep
      DEF stm32l552_flash_write, stm32h563_flash_write, stm32u585_flash_write
    <2>2. ASSUME NEW s \in SecStates, NEW w \in Words, NEW v \in Value,
                 \/ stm32l552_flash_write_cb(s, w, v) \/ stm32h563_flash_write_cb(s, w, v)
                 \/ stm32u585_flash_write_cb(s, w, v)
          PROVE  FlashInv'
      BY <2>2, StmStoreStep
      DEF stm32l552_flash_write_cb, stm32h563_flash_write_cb, stm32u585_flash_write_cb
    <2>3. ASSUME NEW s \in SecStates, NEW mode \in 0 .. 2, nvmc_write(s, mode)
          PROVE  FlashInv'
      <3>1. UNCHANGED <<flash, file, flushq, missed, viaSecure, cpu, ctl, isOpen, faults>>
        BY <2>3 DEF nvmc_write
      <3>2. wen' \in [SecStates -> 0 .. 2]
        BY <2>3 DEF nvmc_write, FlashInv, FlashTypeOK
      <3>3. Restorable' /\ FilesFit'
        BY <3>1, NoChangeRestorable
      <3>. QED
        BY <3>1, <3>2, <3>3 DEF FlashInv, FlashTypeOK
    <2>4. CASE UNCHANGED flashVars
      <3>1. UNCHANGED <<flash, file, flushq, missed, viaSecure, cpu, ctl, wen, isOpen, faults>>
        BY <2>4 DEF flashVars
      <3>2. Restorable' /\ FilesFit'
        BY <3>1, NoChangeRestorable
      <3>. QED
        BY <3>1, <3>2 DEF FlashInv, FlashTypeOK
    <2>. QED
      BY <2>1, <2>2, <2>3, <2>4, NvmcStep, FlushStep, BootStep DEF FlashNext
  <1>. QED
    BY <1>1, <1>2, PTL DEF FlashSpec

(***************************************************************************)
(* The flash controllers and the flush keep their types: no erase or store *)
(* leaves the array, a file is open only inside a flush.                   *)
(***************************************************************************)
THEOREM FlashTypeCorrect == FlashSpec => []FlashTypeOK
  <1>1. FlashInv => FlashTypeOK
    BY DEF FlashInv
  <1>. QED
    BY <1>1, FlashInvariant, PTL

(***************************************************************************)
(* Restarting on the files gives back the flash, for every geometry and    *)
(* every set of images that do not overlap, for every image whose last     *)
(* flush opened and wrote its whole range (mm_flash_persist_flush).        *)
(***************************************************************************)
THEOREM RestartCorrect == FlashSpec => []RestartRestoresFlash
  <1>1. FlashInv => RestartRestoresFlash
    BY DEF FlashInv, Restorable, RestartRestoresFlash
  <1>. QED
    BY <1>1, FlashInvariant, PTL

(***************************************************************************)
(* A crash between any two steps of a flush, in the middle of a write too, *)
(* costs only images that were still queued, or missed before: the cut     *)
(* file of one image never damages another.                                *)
(***************************************************************************)
THEOREM CrashCostCorrect == FlashSpec => CrashCostsOnlyQueuedImages
  <1>. DEFINE Cost == Crash /\ ~viaSecure =>
                         \A i \in Images \ (missed \cup flushq) :
                            \A w \in RangeOf(i) : flash'[w] = flash[w]
  <1>1. FlashInv /\ [FlashNext]_flashVars => [Cost]_flashVars
    BY DEF FlashInv, Restorable, Crash
  <1>. QED
    BY <1>1, FlashInvariant, PTL DEF FlashSpec, CrashCostsOnlyQueuedImages
=============================================================================
