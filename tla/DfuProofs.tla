----------------------------- MODULE DfuProofs ------------------------------
(***************************************************************************)
(* Proofs about Dfu for any MAX_BOOT_SEQ, and any number of updates,       *)
(* switches, reboots and failures of the flash: its types, OneConfirmed,   *)
(* ImageWriteSparesBoot, BootsComplete, and that it implements             *)
(* FirmwareUpdate.                                                         *)
(*                                                                         *)
(* The sectors in the flash are not sound while they are rewritten; then   *)
(* the configuration in the RAM is, and what is already written agrees     *)
(* with it (Rewritten).  Between the choice of a partition for an image    *)
(* and the end of the update the other one stays confirmed (Target).  What *)
(* a configuration names holds a complete image (ImageInv).  When the NCPU *)
(* is started nothing is pending (BootInv), and the image being installed  *)
(* is newer than every other (VersionInv): with these every step maps to   *)
(* one of FirmwareUpdate or to none (DfuRefines).                          *)
(***************************************************************************)
EXTENDS Dfu, TLAPS

(* A configuration that says for each processor which partition is in use. *)
Sound(b) ==
  \A c \in Cpus :
    /\ b[0][c].id = 0 /\ b[1][c].id = 1
    /\ \E p \in Parts : /\ b[p][c].flag = "confirmed"
                        /\ b[1 - p][c].flag \in {"first", "post", "not"}

Blank(b) == \A p \in Parts : b[p] = Erased

Writing == {"erase0", "prog0", "erase1", "prog1"}
Making  == {"init", "init1", "initP0", "initP1"}
Updating == {"image", "cfg", "prog"}

(* What is written agrees with the RAM.                                    *)
Rewritten ==
  /\ pc \in Writing => Sound(ram) /\ after \in {"idle", "load"}
  /\ pc \in {"init1", "initP0", "initP1"} => ram = FactoryCfg
  /\ pc \in {"erase1", "prog1", "initP1"} => cfg[0] = ram[0]

(* The update goes to the partition that is not in use.                    *)
Target ==
  /\ pc \in Making /\ after = "image0" => job.target = 1
  /\ pc = "image0" => job.target = 1 /\ cfg = FactoryCfg /\ ram = FactoryCfg
  /\ pc \in {"image", "cfg"} => ram = cfg
  /\ pc \in Updating =>
       /\ Sound(ram)
       /\ ram[1 - job.target][job.cpu].flag = "confirmed"
  /\ pc = "prog" => \A c \in Cpus : /\ cfg[1 - job.target][c].id = ram[1 - job.target][c].id
                                    /\ cfg[1 - job.target][c].flag = ram[1 - job.target][c].flag

(* The configuration.                                                      *)
DfuInv ==
  ~cut => /\ pc \notin CfgPcs => Sound(cfg) \/ Blank(cfg)
          /\ Rewritten /\ Target

(* A partition that a configuration names, now or for the next boot, holds *)
(* a complete image.                                                       *)
Live == {"confirmed", "first", "post"}
Complete(b) == \A p \in Parts, c \in Cpus : b[p][c].flag \in Live => image[c][p] # Torn

(* The NCPU was started.                                                   *)
Started ==
  \/ pc \in {"idle", "image0"} \cup Updating
  \/ pc \in Making \cup Writing /\ after \in {"idle", "image0"}

ImageInv ==
  ~cut /\ ~switched =>
    /\ pc \notin CfgPcs /\ pc # "image" => Complete(cfg)
    /\ pc \in Writing \cup {"prog"} => Complete(ram)
    /\ pc = "image" =>
         \A p \in Parts, c \in Cpus :
           cfg[p][c].flag \in Live /\ (p # job.target \/ c # job.cpu) => image[c][p] # Torn
    /\ pc = "cfg" => image[job.cpu][job.target] # Torn
    /\ pc \in {"image0", "image", "cfg"} \/ (pc \in Making /\ after = "image0") => job.ver # Torn
    /\ (pc \notin CfgPcs /\ Blank(cfg)) \/ pc \in Making \cup {"image0", "load0"} =>
         \A c \in Cpus : image[c][0] # Torn
    /\ Started => running # Torn

-----------------------------------------------------------------------------
(* What the operators on configurations return.                            *)
Cfgs == [Parts -> [Cpus -> Items]]

LEMMA Sizes == MaxBootSeq \in Nat /\ MaxBootSeq > 0 /\ Ones = MaxBootSeq + 2 /\ Ones \in Nat
BY DfuAssumption DEF Ones

LEMMA ErasedIsItems == Erased \in [Cpus -> Items]
BY Sizes DEF Erased, Items, Item, Flags

LEMMA FactoryIsSound == FactoryCfg \in Cfgs /\ Sound(FactoryCfg) /\ ~Blank(FactoryCfg)
<1>1. FactoryCfg \in Cfgs
  BY Sizes DEF FactoryCfg, Cfgs, Items, Item, Flags, Parts
<1>2. \A c \in Cpus : /\ FactoryCfg[0][c] = Item(0, 1, "confirmed")
                      /\ FactoryCfg[1][c] = Item(1, 0, "not")
  BY DEF FactoryCfg, Parts
<1>3. Sound(FactoryCfg)
  BY <1>2 DEF Sound, Item, Parts
<1>4. "scpu" \in Cpus
  BY DEF Cpus
<1>5. FactoryCfg[0]["scpu"].flag = "confirmed"
  BY <1>2, <1>4 DEF Item
<1>6. Erased["scpu"].flag = "erased"
  BY <1>4 DEF Erased, Item
<1> QED BY <1>1, <1>3, <1>5, <1>6 DEF Blank, Parts

(* One field of one item changes.                                          *)
WithItem(b, p, c, r) == [b EXCEPT ![p][c] = r]
WithFlag(b, p, c, f) == [b EXCEPT ![p][c].flag = f]
WithSeq(b, p, c, s)  == [b EXCEPT ![p][c].seq = s]

LEMMA OneItem ==
  ASSUME NEW b \in Cfgs, NEW p \in Parts, NEW c \in Cpus, NEW r \in Items
  PROVE  /\ WithItem(b, p, c, r) \in Cfgs
         /\ WithItem(b, p, c, r)[p][c] = r
         /\ \A q \in Parts, d \in Cpus : q # p \/ d # c => WithItem(b, p, c, r)[q][d] = b[q][d]
<1> DEFINE row == [b[p] EXCEPT ![c] = r]
           n   == [b EXCEPT ![p] = row]
<1>1. b[p] \in [Cpus -> Items]
  BY DEF Cfgs
<1>2. row \in [Cpus -> Items] /\ row[c] = r /\ \A d \in Cpus : d # c => row[d] = b[p][d]
  BY <1>1
<1>3. n \in Cfgs /\ n[p] = row /\ \A q \in Parts : q # p => n[q] = b[q]
  BY <1>2 DEF Cfgs
<1>4. WithItem(b, p, c, r) = n
  BY DEF WithItem
<1>5. \A q \in Parts, d \in Cpus : q # p \/ d # c => n[q][d] = b[q][d]
  BY <1>2, <1>3
<1> QED BY <1>2, <1>3, <1>4, <1>5

LEMMA OneFlag ==
  ASSUME NEW b \in Cfgs, NEW p \in Parts, NEW c \in Cpus, NEW f \in Flags
  PROVE  /\ WithFlag(b, p, c, f) \in Cfgs
         /\ WithFlag(b, p, c, f)[p][c].flag = f
         /\ WithFlag(b, p, c, f)[p][c].id = b[p][c].id
         /\ WithFlag(b, p, c, f)[p][c].seq = b[p][c].seq
         /\ \A q \in Parts, d \in Cpus : q # p \/ d # c => WithFlag(b, p, c, f)[q][d] = b[q][d]
<1> DEFINE r == [b[p][c] EXCEPT !.flag = f]
<1>1. b[p][c] \in Items
  BY DEF Cfgs
<1>2. r \in Items /\ r.flag = f /\ r.id = b[p][c].id /\ r.seq = b[p][c].seq
  BY <1>1 DEF Items
<1>3. WithFlag(b, p, c, f) = WithItem(b, p, c, r)
  BY DEF WithItem, WithFlag
<1> HIDE DEF r
<1> QED BY <1>2, <1>3, OneItem

LEMMA OneSeq ==
  ASSUME NEW b \in Cfgs, NEW p \in Parts, NEW c \in Cpus, NEW s \in 0 .. Ones
  PROVE  /\ WithSeq(b, p, c, s) \in Cfgs
         /\ WithSeq(b, p, c, s)[p][c].flag = b[p][c].flag
         /\ WithSeq(b, p, c, s)[p][c].id = b[p][c].id
         /\ \A q \in Parts, d \in Cpus : q # p \/ d # c => WithSeq(b, p, c, s)[q][d] = b[q][d]
<1> DEFINE r == [b[p][c] EXCEPT !.seq = s]
<1>1. b[p][c] \in Items
  BY DEF Cfgs
<1>2. r \in Items /\ r.id = b[p][c].id /\ r.flag = b[p][c].flag
  BY <1>1 DEF Items
<1>3. WithSeq(b, p, c, s) = WithItem(b, p, c, r)
  BY DEF WithItem, WithSeq
<1> HIDE DEF r
<1> QED BY <1>2, <1>3, OneItem

(* The boot confirms the image it has started.                             *)
LEMMA ConfirmSound ==
  ASSUME NEW b \in Cfgs, NEW c \in Cpus, NEW p \in Parts
  PROVE  /\ Confirm(b, c, p) \in Cfgs
         /\ Sound(b) => Sound(Confirm(b, c, p))
         /\ \A q \in Parts, d \in Cpus :
              Confirm(b, c, p)[q][d].flag \in Live => b[q][d].flag \in Live
         /\ \A q \in Parts, d \in Cpus : d # c => Confirm(b, c, p)[q][d] = b[q][d]
         /\ b[p][c].flag # "post" => Confirm(b, c, p) = b
         /\ Sound(b) /\ b[p][c].flag = "post" =>
              /\ Confirm(b, c, p)[p][c].flag = "confirmed"
              /\ Confirm(b, c, p)[1 - p][c].flag = "not"
<1>1. CASE b[p][c].flag # "post"
  BY <1>1 DEF Confirm
<1>2. CASE b[p][c].flag = "post"
  <2> DEFINE m == WithFlag(b, p, c, "confirmed")
             f == IF m[1 - p][c].flag = "confirmed" THEN "not" ELSE m[1 - p][c].flag
             n == WithFlag(m, 1 - p, c, f)
  <2>1. 1 - p \in Parts /\ 1 - p # p /\ 1 - (1 - p) = p
    BY DEF Parts
  <2>2. "confirmed" \in Flags /\ "not" \in Flags
    BY DEF Flags
  <2>3. /\ m \in Cfgs /\ m[p][c].flag = "confirmed" /\ m[p][c].id = b[p][c].id
        /\ \A q \in Parts, d \in Cpus : q # p \/ d # c => m[q][d] = b[q][d]
    BY <2>2, OneFlag
  <2>4. Confirm(b, c, p) = n
    BY <1>2, <2>1, <2>3 DEF Confirm, WithFlag
  <2> HIDE DEF m
  <2>5. m[1 - p][c].flag \in Flags
    BY <2>1, <2>3 DEF Cfgs, Items
  <2>6. f \in Flags
    BY <2>2, <2>5
  <2> HIDE DEF f
  <2>7. /\ n \in Cfgs /\ n[1 - p][c].flag = f /\ n[1 - p][c].id = m[1 - p][c].id
        /\ \A q \in Parts, d \in Cpus : q # 1 - p \/ d # c => n[q][d] = m[q][d]
    BY <2>1, <2>3, <2>6, OneFlag
  <2> HIDE DEF n
  <2>8. \A q \in Parts, d \in Cpus : d # c => n[q][d] = b[q][d]
    BY <2>3, <2>7
  <2>9. n[p][c].id = b[p][c].id /\ n[1 - p][c].id = b[1 - p][c].id
    BY <2>1, <2>3, <2>7
  <2>10. ASSUME Sound(b)
         PROVE  Sound(n) /\ n[p][c].flag = "confirmed" /\ n[1 - p][c].flag = "not"
    <3>1. b[1 - p][c].flag = "confirmed"
      BY <1>2, <2>1, <2>10 DEF Sound, Parts
    <3>2. f = "not"
      BY <2>1, <2>3, <3>1 DEF f
    <3>3. n[p][c].flag = "confirmed" /\ n[1 - p][c].flag = "not"
      BY <2>1, <2>3, <2>7, <3>2
    <3>4. Sound(n)
      BY <2>1, <2>8, <2>9, <2>10, <3>3 DEF Sound, Parts
    <3> QED BY <3>3, <3>4
  <2>11. ASSUME NEW q \in Parts, NEW d \in Cpus, n[q][d].flag \in Live
         PROVE  b[q][d].flag \in Live
    <3>1. CASE q = p /\ d = c
      BY <1>2, <3>1 DEF Live
    <3>2. CASE q = 1 - p /\ d = c
      <4>1. f \in {"not", b[q][d].flag}
        BY <2>1, <2>3, <3>2 DEF f
      <4> QED BY <2>7, <2>11, <3>2, <4>1 DEF Live
    <3>3. CASE d # c
      BY <2>8, <2>11, <3>3
    <3> QED BY <3>1, <3>2, <3>3 DEF Parts
  <2> QED BY <1>2, <2>4, <2>7, <2>8, <2>10, <2>11
<1> QED BY <1>1, <1>2

LEMMA ConfirmAllSound ==
  ASSUME NEW b \in Cfgs
  PROVE  /\ ConfirmAll(b) \in Cfgs
         /\ Sound(b) => Sound(ConfirmAll(b))
         /\ \A q \in Parts, d \in Cpus :
              ConfirmAll(b)[q][d].flag \in Live => b[q][d].flag \in Live
<1> DEFINE Kept(x, y) == \A q \in Parts, d \in Cpus :
                           y[q][d].flag \in Live => x[q][d].flag \in Live
           b1 == Confirm(b, "scpu", 0)
           b2 == Confirm(b1, "ncpu", 0)
           b3 == Confirm(b2, "scpu", 1)
           b4 == Confirm(b3, "ncpu", 1)
<1>0. {"scpu", "ncpu"} \subseteq Cpus /\ {0, 1} \subseteq Parts
  BY DEF Cpus, Parts
<1>1. b1 \in Cfgs /\ (Sound(b) => Sound(b1)) /\ Kept(b, b1)
  BY <1>0, ConfirmSound
<1> HIDE DEF b1
<1>2. b2 \in Cfgs /\ (Sound(b1) => Sound(b2)) /\ Kept(b1, b2)
  BY <1>0, <1>1, ConfirmSound
<1> HIDE DEF b2
<1>3. b3 \in Cfgs /\ (Sound(b2) => Sound(b3)) /\ Kept(b2, b3)
  BY <1>0, <1>2, ConfirmSound
<1> HIDE DEF b3
<1>4. b4 \in Cfgs /\ (Sound(b3) => Sound(b4)) /\ Kept(b3, b4)
  BY <1>0, <1>3, ConfirmSound
<1>5. ConfirmAll(b) = b4
  BY DEF ConfirmAll, b1, b2, b3
<1> HIDE DEF b4
<1> QED BY <1>1, <1>2, <1>3, <1>4, <1>5

(* The loader starts an image for the first time.                          *)
LoadedItem(i) == IF i.flag = "first" THEN [i EXCEPT !.flag = "post"] ELSE i
LoadedCfg(b)  == [p \in Parts |-> [c \in Cpus |-> LoadedItem(b[p][c])]]

LEMMA LoadedSound ==
  ASSUME NEW b \in Cfgs
  PROVE  /\ LoadedCfg(b) \in Cfgs
         /\ Sound(b) => Sound(LoadedCfg(b))
         /\ Blank(b) <=> Blank(LoadedCfg(b))
         /\ \A p \in Parts, c \in Cpus :
              LoadedCfg(b)[p][c].flag \in Live => b[p][c].flag \in Live
<1>1. \A i \in Items : LoadedItem(i) \in Items /\ LoadedItem(i).id = i.id
  BY DEF LoadedItem, Items, Flags
<1>2. \A i \in Items : /\ i.flag = "confirmed" => LoadedItem(i).flag = "confirmed"
                       /\ i.flag \in {"first", "post", "not"} =>
                            LoadedItem(i).flag \in {"first", "post", "not"}
                       /\ i.flag = "erased" => LoadedItem(i) = i
  BY DEF LoadedItem, Items, Flags
<1>3. \A p \in Parts, c \in Cpus : b[p][c] \in Items /\ LoadedCfg(b)[p][c] = LoadedItem(b[p][c])
  BY DEF Cfgs, LoadedCfg
<1>4. LoadedCfg(b) \in Cfgs
  BY <1>1, <1>3 DEF Cfgs, LoadedCfg
<1>5. ASSUME Sound(b) PROVE Sound(LoadedCfg(b))
  BY <1>1, <1>2, <1>3, <1>5 DEF Sound, Parts
<1>6. ASSUME Blank(b) PROVE Blank(LoadedCfg(b))
  <2> SUFFICES ASSUME NEW p \in Parts PROVE LoadedCfg(b)[p] = Erased
    BY DEF Blank
  <2>1. \A c \in Cpus : b[p][c] = Erased[c] /\ Erased[c].flag = "erased"
    BY <1>6 DEF Blank, Erased, Item
  <2>2. \A c \in Cpus : LoadedCfg(b)[p][c] = Erased[c]
    BY <1>2, <1>3, <2>1
  <2> QED BY <2>2 DEF LoadedCfg, Erased
<1>7. ASSUME Blank(LoadedCfg(b)) PROVE Blank(b)
  <2> SUFFICES ASSUME NEW p \in Parts PROVE b[p] = Erased
    BY DEF Blank
  <2>1. \A i \in Items : LoadedItem(i).flag = "erased" => LoadedItem(i) = i
    BY DEF LoadedItem, Items
  <2>2. \A c \in Cpus : LoadedItem(b[p][c]) = Erased[c] /\ Erased[c].flag = "erased"
    BY <1>3, <1>7 DEF Blank, Erased, Item
  <2>3. \A c \in Cpus : b[p][c] = Erased[c]
    BY <1>3, <2>1, <2>2
  <2> QED BY <2>3 DEF Cfgs, Erased
<1>8. \A i \in Items : LoadedItem(i).flag \in Live => i.flag \in Live
  BY DEF LoadedItem, Live
<1>9. \A p \in Parts, c \in Cpus : LoadedCfg(b)[p][c].flag \in Live => b[p][c].flag \in Live
  BY <1>3, <1>8
<1> QED BY <1>4, <1>5, <1>6, <1>7, <1>9

LEMMA NewerIsSeq == ASSUME NEW b \in Cfgs, NEW c \in Cpus PROVE Newer(b, c) \in 0 .. Ones
BY DEF Newer, Cfgs, Items, Parts

(* The item of the image that was just written.                            *)
LEMMA NextFlags ==
  ASSUME NEW b \in Cfgs, NEW c \in Cpus, NEW t \in Parts
  PROVE  /\ NextCfg(b, c, t) \in Cfgs
         /\ NextCfg(b, c, t)[t][c].flag = "first"
         /\ \A q \in Parts, d \in Cpus :
              /\ NextCfg(b, c, t)[q][d].id = b[q][d].id
              /\ q # t \/ d # c => NextCfg(b, c, t)[q][d].flag = b[q][d].flag
<1>0. 1 - t \in Parts /\ 1 - t # t /\ "first" \in Flags
  BY DEF Parts, Flags
<1>1. CASE Newer(b, c) > MaxBootSeq
  <2> DEFINE k == WithSeq(b, t, c, 1)
             m == WithSeq(k, 1 - t, c, 0)
             n == WithFlag(m, t, c, "first")
  <2>1. NextCfg(b, c, t) = n
    BY <1>0, <1>1 DEF NextCfg, WithSeq, WithFlag
  <2>2. 0 \in 0 .. Ones /\ 1 \in 0 .. Ones
    BY Sizes
  <2>3. /\ k \in Cfgs /\ k[t][c].flag = b[t][c].flag /\ k[t][c].id = b[t][c].id
        /\ \A q \in Parts, d \in Cpus : q # t \/ d # c => k[q][d] = b[q][d]
    BY <2>2, OneSeq
  <2>4. /\ m \in Cfgs /\ m[1 - t][c].flag = k[1 - t][c].flag /\ m[1 - t][c].id = k[1 - t][c].id
        /\ \A q \in Parts, d \in Cpus : q # 1 - t \/ d # c => m[q][d] = k[q][d]
    BY <1>0, <2>2, <2>3, OneSeq
  <2>5. /\ n \in Cfgs /\ n[t][c].flag = "first" /\ n[t][c].id = m[t][c].id
        /\ \A q \in Parts, d \in Cpus : q # t \/ d # c => n[q][d] = m[q][d]
    BY <1>0, <2>4, OneFlag
  <2> HIDE DEF k, m, n
  <2>6. \A q \in Parts, d \in Cpus : k[q][d].id = b[q][d].id /\ k[q][d].flag = b[q][d].flag
    BY <2>3
  <2>7. \A q \in Parts, d \in Cpus : m[q][d].id = b[q][d].id /\ m[q][d].flag = b[q][d].flag
    BY <2>4, <2>6
  <2> QED BY <2>1, <2>5, <2>7
<1>2. CASE ~(Newer(b, c) > MaxBootSeq)
  <2> DEFINE k == WithSeq(b, t, c, Newer(b, c) + 1)
             n == WithFlag(k, t, c, "first")
  <2>1. NextCfg(b, c, t) = n
    BY <1>0, <1>2 DEF NextCfg, WithSeq, WithFlag
  <2>2. Newer(b, c) + 1 \in 0 .. Ones
    BY <1>2, Sizes, NewerIsSeq
  <2>3. /\ k \in Cfgs /\ k[t][c].flag = b[t][c].flag /\ k[t][c].id = b[t][c].id
        /\ \A q \in Parts, d \in Cpus : q # t \/ d # c => k[q][d] = b[q][d]
    BY <2>2, OneSeq
  <2>4. /\ n \in Cfgs /\ n[t][c].flag = "first" /\ n[t][c].id = k[t][c].id
        /\ \A q \in Parts, d \in Cpus : q # t \/ d # c => n[q][d] = k[q][d]
    BY <1>0, <2>3, OneFlag
  <2> HIDE DEF k, n
  <2> QED BY <2>1, <2>3, <2>4
<1> QED BY <1>1, <1>2

LEMMA NextSound ==
  ASSUME NEW b \in Cfgs, Sound(b), NEW c \in Cpus, NEW t \in Parts,
         b[1 - t][c].flag = "confirmed"
  PROVE  Sound(NextCfg(b, c, t)) /\ NextCfg(b, c, t)[1 - t][c].flag = "confirmed"
<1> DEFINE n == NextCfg(b, c, t)
<1>1. 1 - t \in Parts /\ 1 - t # t /\ 1 - (1 - t) = t
  BY DEF Parts
<1>2. /\ n[t][c].flag = "first"
      /\ \A q \in Parts, d \in Cpus : /\ n[q][d].id = b[q][d].id
                                      /\ q # t \/ d # c => n[q][d].flag = b[q][d].flag
  BY NextFlags
<1> HIDE DEF n
<1>3. n[1 - t][c].flag = "confirmed"
  BY <1>1, <1>2
<1>4. Sound(n)
  BY <1>1, <1>2, <1>3 DEF Sound, Parts
<1> QED BY <1>3, <1>4 DEF n

(* The switch of partitions.                                               *)
LEMMA SwitchedSound ==
  ASSUME NEW b \in Cfgs, NEW c \in Cpus
  PROVE  Switched(b, c) \in Cfgs /\ (Sound(b) => Sound(Switched(b, c)))
<1> DEFINE s == (Newer(b, c) + 1) % (Ones + 1)
           k(p) == WithFlag(b, 1 - p, c, "confirmed")
           m(p) == WithSeq(k(p), 1 - p, c, s)
           n(p) == WithFlag(m(p), p, c, "not")
<1>1. s \in 0 .. Ones
  BY Sizes, NewerIsSeq
<1> HIDE DEF s
<1>2. ASSUME NEW p \in Parts
      PROVE  n(p) \in Cfgs /\ (Sound(b) => Sound(n(p)))
  <2>1. 1 - p \in Parts /\ 1 - p # p /\ 1 - (1 - p) = p /\ {"confirmed", "not"} \subseteq Flags
    BY DEF Parts, Flags
  <2>2. /\ k(p) \in Cfgs
        /\ k(p)[1 - p][c].flag = "confirmed" /\ k(p)[1 - p][c].id = b[1 - p][c].id
        /\ \A q \in Parts, d \in Cpus : q # 1 - p \/ d # c => k(p)[q][d] = b[q][d]
    BY <2>1, OneFlag
  <2> HIDE DEF k
  <2>3. /\ m(p) \in Cfgs
        /\ m(p)[1 - p][c].flag = "confirmed" /\ m(p)[1 - p][c].id = b[1 - p][c].id
        /\ \A q \in Parts, d \in Cpus : q # 1 - p \/ d # c => m(p)[q][d] = k(p)[q][d]
    BY <1>1, <2>1, <2>2, OneSeq
  <2> HIDE DEF m
  <2>4. /\ n(p) \in Cfgs /\ n(p)[p][c].flag = "not" /\ n(p)[p][c].id = m(p)[p][c].id
        /\ \A q \in Parts, d \in Cpus : q # p \/ d # c => n(p)[q][d] = m(p)[q][d]
    BY <2>1, <2>3, OneFlag
  <2> HIDE DEF n
  <2>5. n(p)[p][c].flag = "not" /\ n(p)[1 - p][c].flag = "confirmed"
    BY <2>1, <2>3, <2>4
  <2>6. n(p)[p][c].id = b[p][c].id /\ n(p)[1 - p][c].id = b[1 - p][c].id
    BY <2>1, <2>2, <2>3, <2>4
  <2>7. \A q \in Parts, d \in Cpus : d # c => n(p)[q][d] = b[q][d]
    BY <2>2, <2>3, <2>4
  <2>8. ASSUME Sound(b) PROVE Sound(n(p))
    BY <2>1, <2>5, <2>6, <2>7, <2>8 DEF Sound, Parts
  <2> QED BY <2>4, <2>8
<1>3. 0 \in Parts /\ 1 \in Parts
  BY DEF Parts
<1>4. Switched(b, c) \in {n(0), n(1), b}
  BY DEF Switched, WithFlag, WithSeq, s
<1> HIDE DEF n
<1> QED BY <1>2, <1>3, <1>4

(* Which partition is in use.                                              *)
LEMMA ActiveSound ==
  ASSUME NEW b \in Cfgs, Sound(b), NEW c \in Cpus
  PROVE  /\ active_partition(b, c) \in Parts
         /\ b[active_partition(b, c)][c].flag = "confirmed"
         /\ BootPartition(b, c) = active_partition(b, c)
BY DEF Sound, active_partition, BootPartition, BothErased, TwoActive, SameItem, ConfirmedBit,
       Parts, Unset

LEMMA SoundNotBlank == ASSUME NEW b, Sound(b) PROVE ~Blank(b)
BY DEF Sound, Blank, Erased, Item, Parts, Cpus

LEMMA ActiveBlank ==
  ASSUME NEW b, Blank(b), NEW c \in Cpus
  PROVE  BothErased(b, c) /\ active_partition(b, c) = Unset
<1>1. BothErased(b, c)
  BY DEF Blank, BothErased, Erased, Item
<1> QED BY <1>1 DEF active_partition

-----------------------------------------------------------------------------
(* The types.                                                              *)
FlashTypeOK == cfg \in Cfgs /\ ram \in Cfgs /\ image \in [Cpus -> [Parts -> Nat]]
PlaceTypeOK == pc \in DfuPcs /\ after \in {"idle", "load", "load0", "image0"}
JobTypeOK   == /\ job \in [cpu : Cpus, target : Parts, ver : Nat]
               /\ result \in [cpu : Cpus, code : Codes]
               /\ running \in Nat
PastTypeOK  == flashing \in BOOLEAN /\ cut \in BOOLEAN /\ switched \in BOOLEAN
               /\ done \in Counters

LEMMA TypeParts ==
  /\ DfuTypeOK <=> FlashTypeOK /\ PlaceTypeOK /\ JobTypeOK /\ PastTypeOK
  /\ DfuTypeOK' <=> FlashTypeOK' /\ PlaceTypeOK' /\ JobTypeOK' /\ PastTypeOK'
BY DEF DfuTypeOK, FlashTypeOK, PlaceTypeOK, JobTypeOK, PastTypeOK, Cfgs

LEMMA OneSector ==
  ASSUME NEW b \in Cfgs, NEW p \in Parts, NEW r \in [Cpus -> Items]
  PROVE  /\ [b EXCEPT ![p] = r] \in Cfgs /\ [b EXCEPT ![p] = r][p] = r
         /\ [b EXCEPT ![p] = r][1 - p] = b[1 - p]
BY DEF Cfgs, Parts

LEMMA OneImage ==
  ASSUME image \in [Cpus -> [Parts -> Nat]], NEW c \in Cpus, NEW t \in Parts, NEW v \in Nat
  PROVE  [image EXCEPT ![c][t] = v] \in [Cpus -> [Parts -> Nat]]
OBVIOUS

LEMMA Counted ==
  ASSUME done \in Counters
  PROVE  /\ [done EXCEPT !.boot = @ + 1] \in Counters
         /\ [done EXCEPT !.fault = @ + 1] \in Counters
         /\ [done EXCEPT !.update = @ + 1] \in Counters
         /\ [done EXCEPT !.switch = @ + 1] \in Counters
BY DEF Counters

(* What was counted.                                                       *)
LEMMA PastKept ==
  ASSUME PastTypeOK, UNCHANGED <<flashing, cut, switched, done>> PROVE PastTypeOK'
BY DEF PastTypeOK

LEMMA FaultTypes == PastTypeOK /\ Fault => cut' \in BOOLEAN /\ done' \in Counters
BY Counted DEF PastTypeOK, Fault

LEMMA PastFault ==
  ASSUME PastTypeOK, flashing' \in BOOLEAN, UNCHANGED switched, Fault \/ UNCHANGED <<done, cut>>
  PROVE  PastTypeOK'
<1>1. CASE Fault
  BY <1>1, FaultTypes DEF PastTypeOK
<1>2. CASE UNCHANGED <<done, cut>>
  BY <1>2 DEF PastTypeOK
<1> QED BY <1>1, <1>2

(* The two sectors.                                                        *)
LEMMA EraseTypes ==
  ASSUME DfuTypeOK, NEW p \in Parts, NEW from, NEW to \in DfuPcs, EraseSector(p, from, to)
  PROVE  DfuTypeOK'
<1>1. FlashTypeOK /\ PlaceTypeOK /\ JobTypeOK /\ PastTypeOK
  BY TypeParts
<1>2. FlashTypeOK'
  BY <1>1, OneSector, ErasedIsItems DEF FlashTypeOK, EraseSector
<1>3. PlaceTypeOK' /\ JobTypeOK'
  BY <1>1 DEF PlaceTypeOK, JobTypeOK, EraseSector
<1>4. UNCHANGED <<flashing, cut, switched, done>>
  BY DEF EraseSector, dfuHistory
<1> QED BY <1>1, <1>2, <1>3, <1>4, PastKept, TypeParts

LEMMA ProgramTypes ==
  ASSUME DfuTypeOK, NEW p \in Parts, NEW from, NEW to \in DfuPcs,
         ProgramSector(p, from, to) \/ InitProgram(p, from, to)
  PROVE  DfuTypeOK'
<1>1. FlashTypeOK /\ PlaceTypeOK /\ JobTypeOK /\ PastTypeOK
  BY TypeParts
<1>2. ram[p] \in [Cpus -> Items]
  BY <1>1 DEF FlashTypeOK, Cfgs
<1>3. cfg' \in {cfg, [cfg EXCEPT ![p] = ram[p]]} /\ UNCHANGED <<ram, image>>
  BY DEF ProgramSector, InitProgram
<1>4. FlashTypeOK'
  BY <1>1, <1>2, <1>3, OneSector DEF FlashTypeOK
<1>5. after \in DfuPcs
  BY <1>1 DEF PlaceTypeOK, DfuPcs
<1>6. PlaceTypeOK' /\ JobTypeOK'
  BY <1>1, <1>5 DEF PlaceTypeOK, JobTypeOK, ProgramSector, InitProgram
<1>7. UNCHANGED <<flashing, switched>> /\ (Fault \/ UNCHANGED <<done, cut>>)
  BY DEF ProgramSector, InitProgram
<1>8. PastTypeOK'
  <2>1. flashing' \in BOOLEAN
    BY <1>1, <1>7 DEF PastTypeOK
  <2> QED BY <1>1, <1>7, <2>1, PastFault
<1> QED BY <1>4, <1>6, <1>8, TypeParts

LEMMA DfuTypesKept == DfuTypeOK /\ [DfuNext]_dfuVars => DfuTypeOK'
<1> SUFFICES ASSUME DfuTypeOK, [DfuNext]_dfuVars PROVE DfuTypeOK'
  OBVIOUS
<1>0. FlashTypeOK /\ PlaceTypeOK /\ JobTypeOK /\ PastTypeOK
  BY TypeParts
<1>a. after \in DfuPcs /\ "idle" \in DfuPcs /\ "scpu" \in Cpus /\ 0 \in Parts /\ 1 \in Parts
  BY <1>0 DEF PlaceTypeOK, DfuPcs, Cpus, Parts
<1>1. CASE PowerLoss
  <2>1. FlashTypeOK'
    <3>1. [q \in Parts |-> Erased] \in Cfgs
      BY ErasedIsItems DEF Cfgs
    <3> QED BY <1>0, <1>1, <3>1 DEF FlashTypeOK, PowerLoss, dfuFlash
  <2>2. PlaceTypeOK' /\ JobTypeOK'
    BY <1>a, <1>1 DEF PlaceTypeOK, JobTypeOK, PowerLoss, DfuPcs, NoJob, Result, Codes, Torn
  <2>3. PastTypeOK'
    <3>1. done' \in Counters
      BY <1>0, <1>1, Counted DEF PastTypeOK, PowerLoss
    <3>2. flashing' \in BOOLEAN /\ cut' \in BOOLEAN
      BY <1>1 DEF PowerLoss
    <3>3. switched' = switched
      BY <1>1 DEF PowerLoss
    <3> QED BY <1>0, <3>1, <3>2, <3>3 DEF PastTypeOK
  <2> QED BY <2>1, <2>2, <2>3, TypeParts
<1>2. CASE Loader
  <2>1. cfg' = LoadedCfg(cfg) /\ UNCHANGED <<ram, image>>
    BY <1>2 DEF Loader, LoadedCfg, LoadedItem
  <2>2. FlashTypeOK'
    BY <1>0, <2>1, LoadedSound DEF FlashTypeOK
  <2>3. PlaceTypeOK' /\ JobTypeOK'
    BY <1>0, <1>2 DEF PlaceTypeOK, JobTypeOK, Loader, DfuPcs
  <2>4. UNCHANGED <<flashing, cut, switched, done>>
    BY <1>2 DEF Loader, dfuHistory
  <2> QED BY <1>0, <2>2, <2>3, <2>4, PastKept, TypeParts
<1>3. CASE kmdw_dfu_cfg_sts_check
  <2>1. cfg' = cfg /\ ram' \in {cfg, ConfirmAll(cfg)} /\ UNCHANGED image
    BY <1>3 DEF kmdw_dfu_cfg_sts_check, dfuFlash
  <2>2. FlashTypeOK'
    BY <1>0, <2>1, ConfirmAllSound DEF FlashTypeOK
  <2>3. PlaceTypeOK' /\ JobTypeOK'
    BY <1>0, <1>3 DEF PlaceTypeOK, JobTypeOK, kmdw_dfu_cfg_sts_check, DfuPcs, CfgPcs
  <2>4. UNCHANGED <<flashing, cut, switched, done>>
    BY <1>3 DEF kmdw_dfu_cfg_sts_check, dfuHistory
  <2> QED BY <1>0, <2>2, <2>3, <2>4, PastKept, TypeParts
<1>4. CASE load_ncpu_fw
  <2>1. FlashTypeOK'
    BY <1>0, <1>4 DEF FlashTypeOK, load_ncpu_fw, dfuFlash
  <2>2. BootPartition(cfg, "ncpu") \in Parts /\ image["ncpu"] \in [Parts -> Nat]
    BY <1>0 DEF BootPartition, Parts, FlashTypeOK, Cpus
  <2>3. running' \in Nat
    BY <1>0, <1>a, <1>4, <2>2 DEF JobTypeOK, load_ncpu_fw, NcpuStarts
  <2>4. PlaceTypeOK' /\ JobTypeOK'
    BY <1>0, <1>4, <2>3 DEF PlaceTypeOK, JobTypeOK, load_ncpu_fw, NcpuStarts, DfuPcs
  <2>5. UNCHANGED <<flashing, cut, switched, done>>
    BY <1>4 DEF load_ncpu_fw, dfuHistory
  <2> QED BY <1>0, <2>1, <2>4, <2>5, PastKept, TypeParts
<1>5. CASE WriteBothSectors
  <2>1. {"prog0", "erase1", "prog1"} \subseteq DfuPcs
    BY DEF DfuPcs, CfgPcs
  <2>2. CASE EraseSector(0, "erase0", "prog0")
    BY <1>a, <2>1, <2>2, EraseTypes
  <2>3. CASE ProgramSector(0, "prog0", "erase1")
    BY <1>a, <2>1, <2>3, ProgramTypes
  <2>4. CASE EraseSector(1, "erase1", "prog1")
    BY <1>a, <2>1, <2>4, EraseTypes
  <2>5. CASE ProgramSector(1, "prog1", after)
    BY <1>a, <2>5, ProgramTypes
  <2> QED BY <1>5, <2>2, <2>3, <2>4, <2>5 DEF WriteBothSectors
<1>6. CASE dfu_init_partition_boot_cfg
  <2>1. {"init1", "initP0", "initP1"} \subseteq DfuPcs
    BY DEF DfuPcs, CfgPcs
  <2>2. CASE /\ cfg' = [cfg EXCEPT ![0] = Erased] /\ ram' = FactoryCfg /\ pc' = "init1"
             /\ UNCHANGED <<image, job, after, flashing, result, running, done, dfuHistory>>
    <3>1. FlashTypeOK'
      BY <1>0, <1>a, <2>2, OneSector, ErasedIsItems, FactoryIsSound DEF FlashTypeOK
    <3>2. PlaceTypeOK' /\ JobTypeOK'
      BY <1>0, <2>1, <2>2 DEF PlaceTypeOK, JobTypeOK
    <3>3. UNCHANGED <<flashing, cut, switched, done>>
      BY <2>2 DEF dfuHistory
    <3> QED BY <1>0, <3>1, <3>2, <3>3, PastKept, TypeParts
  <2>3. CASE EraseSector(1, "init1", "initP0")
    BY <1>a, <2>1, <2>3, EraseTypes
  <2>4. CASE InitProgram(0, "initP0", "initP1")
    BY <1>a, <2>1, <2>4, ProgramTypes
  <2>5. CASE InitProgram(1, "initP1", after)
    BY <1>a, <2>5, ProgramTypes
  <2> QED BY <1>6, <2>2, <2>3, <2>4, <2>5 DEF dfu_init_partition_boot_cfg
<1>7. CASE BeginAfterInit
  <2>1. job.cpu \in Cpus /\ job.ver \in Nat /\ Torn \in Nat
    BY <1>0 DEF JobTypeOK, Torn
  <2>2. FlashTypeOK'
    BY <1>0, <1>a, <1>7, <2>1, OneImage DEF FlashTypeOK, BeginAfterInit, BeginImage
  <2>3. PlaceTypeOK' /\ JobTypeOK'
    BY <1>0, <1>a, <1>7, <2>1 DEF PlaceTypeOK, JobTypeOK, BeginAfterInit, BeginImage, DfuPcs
  <2>4. UNCHANGED <<flashing, cut, switched, done>>
    BY <1>7 DEF BeginAfterInit
  <2> QED BY <1>0, <2>2, <2>3, <2>4, PastKept, TypeParts
<1>8. CASE WriteImage
  <2>1. job.cpu \in Cpus /\ job.target \in Parts /\ job.ver \in Nat
    BY <1>0 DEF JobTypeOK
  <2>2. FlashTypeOK'
    BY <1>0, <1>8, <2>1, OneImage DEF FlashTypeOK, WriteImage
  <2>3. PlaceTypeOK' /\ JobTypeOK'
    BY <1>0, <1>8, <2>1 DEF PlaceTypeOK, JobTypeOK, WriteImage, Return, Result, Codes, DfuPcs
  <2>4. UNCHANGED switched /\ (Fault \/ UNCHANGED <<done, cut>>)
    BY <1>8 DEF WriteImage
  <2>5. PastTypeOK'
    <3>1. (UNCHANGED flashing) \/ flashing' = FALSE
      BY <1>8 DEF WriteImage, Return
    <3>2. flashing' \in BOOLEAN
      BY <1>0, <3>1 DEF PastTypeOK
    <3> QED BY <1>0, <2>4, <3>2, PastFault
  <2> QED BY <2>2, <2>3, <2>5, TypeParts
<1>9. CASE EraseUpdateCfg
  <2>1. job.cpu \in Cpus /\ job.target \in Parts
    BY <1>0 DEF JobTypeOK
  <2>2. NextCfg(ram, job.cpu, job.target) \in Cfgs
    BY <1>0, <2>1, NextFlags DEF FlashTypeOK
  <2>3. FlashTypeOK'
    BY <1>0, <1>9, <2>1, <2>2, OneSector, ErasedIsItems DEF FlashTypeOK, EraseUpdateCfg
  <2>4. PlaceTypeOK' /\ JobTypeOK'
    BY <1>0, <1>9 DEF PlaceTypeOK, JobTypeOK, EraseUpdateCfg, DfuPcs, CfgPcs
  <2>5. UNCHANGED <<flashing, cut, switched, done>>
    BY <1>9 DEF EraseUpdateCfg, dfuHistory
  <2> QED BY <1>0, <2>3, <2>4, <2>5, PastKept, TypeParts
<1>10. CASE ProgramUpdateCfg
  <2>1. job.cpu \in Cpus /\ job.target \in Parts /\ ram[job.target] \in [Cpus -> Items]
    BY <1>0 DEF JobTypeOK, FlashTypeOK, Cfgs
  <2>2. /\ cfg' \in {cfg, [cfg EXCEPT ![job.target] = ram[job.target]]} /\ ram' = cfg'
        /\ UNCHANGED image
    BY <1>10 DEF ProgramUpdateCfg
  <2>3. cfg' \in Cfgs
    BY <1>0, <2>1, <2>2, OneSector DEF FlashTypeOK
  <2>4. FlashTypeOK'
    BY <1>0, <2>2, <2>3 DEF FlashTypeOK
  <2>5. PlaceTypeOK' /\ JobTypeOK'
    BY <1>0, <1>10, <2>1 DEF PlaceTypeOK, JobTypeOK, ProgramUpdateCfg, Return, Result, Codes,
                             DfuPcs
  <2>6. flashing' = FALSE /\ UNCHANGED switched /\ (Fault \/ UNCHANGED <<done, cut>>)
    BY <1>10 DEF ProgramUpdateCfg, Return
  <2>7. PastTypeOK'
    <3>1. flashing' \in BOOLEAN
      BY <2>6
    <3> QED BY <1>0, <2>6, <3>1, PastFault
  <2> QED BY <2>4, <2>5, <2>7, TypeParts
<1>11. ASSUME NEW c \in Cpus, NEW code \in {"auth_fail", "data_error"}, RejectUpdate(c, code)
       PROVE  DfuTypeOK'
  <2>1. FlashTypeOK' /\ PlaceTypeOK'
    BY <1>0, <1>11 DEF FlashTypeOK, PlaceTypeOK, RejectUpdate, dfuFlash
  <2>2. JobTypeOK'
    BY <1>0, <1>11 DEF JobTypeOK, RejectUpdate, Result, Codes
  <2>3. UNCHANGED <<flashing, cut, switched>>
    BY <1>11 DEF RejectUpdate, dfuHistory
  <2>4. done' \in Counters
    BY <1>0, <1>11, Counted DEF PastTypeOK, RejectUpdate
  <2>5. PastTypeOK'
    BY <1>0, <2>3, <2>4 DEF PastTypeOK
  <2> QED BY <2>1, <2>2, <2>5, TypeParts
<1>12. ASSUME NEW c \in Cpus, BeginUpdate(c) PROVE DfuTypeOK'
  <2> DEFINE active == active_partition(cfg, c)
  <2>1. done.update + 2 \in Nat /\ Torn \in Nat
    BY <1>0 DEF PastTypeOK, Counters, Torn
  <2>2. active \in Parts => 1 - active \in Parts
    BY DEF Parts
  <2> HIDE DEF active
  <2>3. \/ active = Unset /\ UNCHANGED image /\ pc' = "init" /\ after' = "image0"
           /\ job' = [cpu |-> c, target |-> 1, ver |-> done.update + 2]
           /\ flashing' = TRUE /\ result' = Result(c, "none")
        \/ UNCHANGED <<image, pc, after, job, flashing>> /\ result' = Result(c, "flash_fail")
        \/ active \in Parts /\ image' = [image EXCEPT ![c][1 - active] = Torn] /\ pc' = "image"
           /\ UNCHANGED after
           /\ job' = [cpu |-> c, target |-> 1 - active, ver |-> done.update + 2]
           /\ flashing' = TRUE /\ result' = Result(c, "none")
    BY <1>12 DEF BeginUpdate, BeginImage, active
  <2>4. /\ ram' = cfg /\ done' = [done EXCEPT !.update = @ + 1]
        /\ UNCHANGED <<cfg, running, cut, switched>>
    BY <1>12 DEF BeginUpdate
  <2>5. FlashTypeOK'
    BY <1>0, <2>1, <2>2, <2>3, <2>4, OneImage DEF FlashTypeOK
  <2>6. PlaceTypeOK'
    BY <1>0, <2>3 DEF PlaceTypeOK, DfuPcs
  <2>7. JobTypeOK'
    BY <1>0, <1>a, <2>1, <2>2, <2>3, <2>4 DEF JobTypeOK, Result, Codes
  <2>8. flashing' \in BOOLEAN
    BY <1>0, <2>3 DEF PastTypeOK
  <2>9. PastTypeOK'
    <3>1. done' \in Counters
      BY <1>0, <2>4, Counted DEF PastTypeOK
    <3> QED BY <1>0, <2>4, <2>8, <3>1 DEF PastTypeOK
  <2> QED BY <2>5, <2>6, <2>7, <2>9, TypeParts
<1>13. ASSUME NEW c \in Cpus, kmdw_dfu_switch_active_partition(c) PROVE DfuTypeOK'
  <2>1. cfg' = cfg /\ UNCHANGED image /\ ram' \in {cfg, Switched(cfg, c)}
    BY <1>13 DEF kmdw_dfu_switch_active_partition, dfuFlash
  <2>2. FlashTypeOK'
    BY <1>0, <2>1, SwitchedSound DEF FlashTypeOK
  <2>3. PlaceTypeOK' /\ JobTypeOK'
    BY <1>0, <1>13 DEF PlaceTypeOK, JobTypeOK, kmdw_dfu_switch_active_partition, Result, Codes,
                       DfuPcs
  <2>4. UNCHANGED <<flashing, cut>> /\ done' = [done EXCEPT !.switch = @ + 1]
    BY <1>13 DEF kmdw_dfu_switch_active_partition
  <2>5. PastTypeOK'
    <3>1. (UNCHANGED switched) \/ switched' = TRUE
      BY <1>13 DEF kmdw_dfu_switch_active_partition
    <3>2. switched' \in BOOLEAN
      BY <1>0, <3>1 DEF PastTypeOK
    <3>3. done' \in Counters
      BY <1>0, <2>4, Counted DEF PastTypeOK
    <3> QED BY <1>0, <2>4, <3>2, <3>3 DEF PastTypeOK
  <2> QED BY <2>2, <2>3, <2>5, TypeParts
<1>14. CASE UNCHANGED dfuVars
  BY <1>14 DEF dfuVars, dfuFlash, dfuControl, dfuHistory, DfuTypeOK
<1> QED BY <1>1, <1>2, <1>3, <1>4, <1>5, <1>6, <1>7, <1>8, <1>9, <1>10, <1>11, <1>12, <1>13,
           <1>14 DEF DfuNext, DfuStep, DfuRequest

-----------------------------------------------------------------------------
(* The invariant.                                                          *)
LEMMA SameIsSound ==
  ASSUME NEW a, NEW b, Sound(a),
         \A p \in Parts, c \in Cpus : b[p][c].id = a[p][c].id /\ b[p][c].flag = a[p][c].flag
  PROVE  Sound(b)
BY DEF Sound, Parts

LEMMA SameCfg == ASSUME NEW a \in Cfgs, NEW b \in Cfgs, a[0] = b[0], a[1] = b[1] PROVE a = b
BY DEF Cfgs, Parts

(* Nothing is trusted after a fault in the middle of something.            *)
LEMMA FaultCuts == ASSUME DfuTypeOK, Fault, ~cut' PROVE ~cut /\ ~Exposed
BY DEF Fault

LEMMA WriteKeeps ==
  ASSUME DfuTypeOK, DfuTypeOK', ~cut, ~cut', DfuInv,
         WriteBothSectors \/ dfu_init_partition_boot_cfg
  PROVE  DfuInv'
<1>0. FlashTypeOK /\ FlashTypeOK' /\ PlaceTypeOK /\ 0 \in Parts /\ 1 \in Parts
  BY TypeParts DEF Parts
<1>1. Rewritten /\ Target
  BY DEF DfuInv
<1>a. /\ ram[0] \in [Cpus -> Items] /\ ram[1] \in [Cpus -> Items]
      /\ Erased \in [Cpus -> Items]
  BY <1>0, ErasedIsItems DEF FlashTypeOK, Cfgs
<1> USE DEF Rewritten, Target, Writing, Making, Updating
<1>2. CASE EraseSector(0, "erase0", "prog0")
  BY <1>1, <1>2 DEF EraseSector, DfuInv, CfgPcs
<1>3. CASE ProgramSector(0, "prog0", "erase1")
  <2>1. pc = "prog0" /\ ~Fault
    BY <1>3, FaultCuts DEF ProgramSector, Exposed, CfgPcs
  <2>2. cfg' = [cfg EXCEPT ![0] = ram[0]] /\ pc' = "erase1" /\ UNCHANGED <<ram, after, job>>
    BY <1>3, <2>1 DEF ProgramSector
  <2>3. cfg'[0] = ram[0]
    BY <1>0, <1>a, <2>2, OneSector DEF FlashTypeOK
  <2> QED BY <1>1, <2>1, <2>2, <2>3 DEF DfuInv, CfgPcs
<1>4. CASE EraseSector(1, "erase1", "prog1")
  <2>1. /\ pc = "erase1" /\ pc' = "prog1" /\ cfg' = [cfg EXCEPT ![1] = Erased]
        /\ UNCHANGED <<ram, after, job>>
    BY <1>4 DEF EraseSector
  <2>2. cfg'[0] = cfg[0]
    BY <1>0, <1>a, <2>1, OneSector DEF FlashTypeOK
  <2> QED BY <1>1, <2>1, <2>2 DEF DfuInv, CfgPcs
<1>5. CASE ProgramSector(1, "prog1", after)
  <2>1. pc = "prog1" /\ ~Fault
    BY <1>5, FaultCuts DEF ProgramSector, Exposed, CfgPcs
  <2>2. cfg' = [cfg EXCEPT ![1] = ram[1]] /\ pc' = after /\ UNCHANGED <<ram, after, job>>
    BY <1>5, <2>1 DEF ProgramSector
  <2>3. cfg'[0] = ram[0] /\ cfg'[1] = ram[1]
    BY <1>0, <1>1, <1>a, <2>1, <2>2, OneSector DEF FlashTypeOK
  <2>4. Sound(cfg')
    BY <1>1, <2>1, <2>3, SameIsSound DEF Parts
  <2> QED BY <1>1, <2>1, <2>2, <2>4 DEF DfuInv, CfgPcs
<1>6. CASE /\ pc = "init" /\ ram' = FactoryCfg /\ pc' = "init1" /\ UNCHANGED <<after, job>>
  BY <1>1, <1>6 DEF DfuInv, CfgPcs
<1>7. CASE EraseSector(1, "init1", "initP0")
  BY <1>1, <1>7 DEF EraseSector, DfuInv, CfgPcs
<1>8. CASE InitProgram(0, "initP0", "initP1")
  <2>1. pc = "initP0" /\ ~Fault
    BY <1>8, FaultCuts DEF InitProgram, Exposed, CfgPcs
  <2>2. cfg' = [cfg EXCEPT ![0] = ram[0]] /\ pc' = "initP1" /\ UNCHANGED <<ram, after, job>>
    BY <1>8, <2>1 DEF InitProgram
  <2>3. cfg'[0] = ram[0]
    BY <1>0, <1>a, <2>2, OneSector DEF FlashTypeOK
  <2> QED BY <1>1, <2>1, <2>2, <2>3 DEF DfuInv, CfgPcs
<1>9. CASE InitProgram(1, "initP1", after)
  <2>1. pc = "initP1" /\ ~Fault
    BY <1>9, FaultCuts DEF InitProgram, Exposed, CfgPcs
  <2>2. cfg' = [cfg EXCEPT ![1] = ram[1]] /\ pc' = after /\ UNCHANGED <<ram, after, job>>
    BY <1>9, <2>1 DEF InitProgram
  <2>3. cfg'[0] = ram[0] /\ cfg'[1] = ram[1]
    BY <1>0, <1>1, <1>a, <2>1, <2>2, OneSector DEF FlashTypeOK
  <2>4. cfg' = FactoryCfg /\ ram' = FactoryCfg
    BY <1>0, <1>1, <2>1, <2>2, <2>3, SameCfg DEF FlashTypeOK
  <2>5. after \in {"idle", "load", "load0", "image0"}
    BY <1>0 DEF PlaceTypeOK
  <2> QED BY <1>1, <2>1, <2>2, <2>4, <2>5, FactoryIsSound DEF DfuInv, CfgPcs
<1> QED BY <1>2, <1>3, <1>4, <1>5, <1>6, <1>7, <1>8, <1>9
        DEF WriteBothSectors, dfu_init_partition_boot_cfg

LEMMA BootKeeps ==
  ASSUME DfuTypeOK, DfuTypeOK', ~cut, ~cut', DfuInv,
         PowerLoss \/ Loader \/ kmdw_dfu_cfg_sts_check \/ load_ncpu_fw
  PROVE  DfuInv'
<1>0. FlashTypeOK /\ FlashTypeOK' /\ PlaceTypeOK
  BY TypeParts
<1>1. pc \notin CfgPcs => Sound(cfg) \/ Blank(cfg)
  BY DEF DfuInv
<1> USE DEF Rewritten, Target, Writing, Making, Updating
<1>2. CASE PowerLoss
  <2>1. ~Exposed /\ UNCHANGED cfg /\ pc' = "off"
    BY <1>2 DEF PowerLoss, dfuFlash
  <2> QED BY <1>1, <2>1 DEF DfuInv, CfgPcs, Exposed
<1>3. CASE Loader
  <2>1. pc = "off" /\ pc' = "check" /\ cfg' = LoadedCfg(cfg)
    BY <1>3 DEF Loader, LoadedCfg, LoadedItem
  <2>2. Sound(cfg') \/ Blank(cfg')
    BY <1>0, <1>1, <2>1, LoadedSound DEF FlashTypeOK, CfgPcs
  <2> QED BY <2>1, <2>2 DEF DfuInv, CfgPcs
<1>4. CASE kmdw_dfu_cfg_sts_check
  <2>1. pc = "check" /\ cfg' = cfg /\ (Sound(cfg) \/ Blank(cfg))
    BY <1>1, <1>4 DEF kmdw_dfu_cfg_sts_check, dfuFlash, CfgPcs
  <2>2. CASE pc' = "load"
    BY <2>1, <2>2 DEF DfuInv, CfgPcs
  <2>3. CASE pc' # "load"
    <3>1. /\ pc' = "erase0" /\ after' = "load" /\ ram' = ConfirmAll(cfg)
          /\ ~(cfg[0]["scpu"].flag = "erased" /\ cfg[1]["scpu"].flag = "erased")
      BY <1>4, <2>3 DEF kmdw_dfu_cfg_sts_check
    <3>2. ~Blank(cfg)
      BY <3>1 DEF Blank, Erased, Item, Parts, Cpus
    <3>3. Sound(ram')
      BY <1>0, <2>1, <3>1, <3>2, ConfirmAllSound DEF FlashTypeOK
    <3> QED BY <2>1, <3>1, <3>3 DEF DfuInv, CfgPcs
  <2> QED BY <2>2, <2>3
<1>5. CASE load_ncpu_fw
  <2>1. /\ pc \in {"load", "load0"} /\ cfg' = cfg
        /\ pc' = "idle" \/ (pc' = "init" /\ after' = "load0")
    BY <1>5 DEF load_ncpu_fw, NcpuStarts, dfuFlash
  <2> QED BY <1>1, <2>1 DEF DfuInv, CfgPcs
<1> QED BY <1>2, <1>3, <1>4, <1>5

LEMMA UpdateKeeps ==
  ASSUME DfuTypeOK, DfuTypeOK', ~cut, ~cut', DfuInv,
         BeginAfterInit \/ WriteImage \/ EraseUpdateCfg \/ ProgramUpdateCfg
  PROVE  DfuInv'
<1>0. FlashTypeOK /\ FlashTypeOK' /\ PlaceTypeOK /\ JobTypeOK
  BY TypeParts
<1>1. (pc \notin CfgPcs => Sound(cfg) \/ Blank(cfg)) /\ Target
  BY DEF DfuInv
<1>a. /\ job.cpu \in Cpus /\ job.target \in Parts /\ 1 - job.target \in Parts
      /\ 1 - job.target # job.target
  BY <1>0 DEF JobTypeOK, Parts
<1> USE DEF Rewritten, Target, Writing, Making, Updating
<1>2. CASE BeginAfterInit
  <2>1. pc = "image0" /\ pc' = "image" /\ UNCHANGED <<cfg, ram>>
    BY <1>2 DEF BeginAfterInit, BeginImage
  <2>2. job'.target = 1 /\ job'.cpu = job.cpu
    BY <1>2 DEF BeginAfterInit, BeginImage
  <2>3. FactoryCfg[0][job.cpu].flag = "confirmed"
    BY <1>a DEF FactoryCfg, Parts, Item
  <2> QED BY <1>1, <2>1, <2>2, <2>3, FactoryIsSound DEF DfuInv, CfgPcs
<1>3. CASE WriteImage
  <2>1. pc = "image" /\ UNCHANGED <<cfg, ram, job>> /\ pc' \in {"cfg", "idle"}
    BY <1>3 DEF WriteImage, Return
  <2> QED BY <1>1, <2>1 DEF DfuInv, CfgPcs
<1>4. CASE EraseUpdateCfg
  <2> DEFINE n == NextCfg(ram, job.cpu, job.target)
  <2>1. /\ pc = "cfg" /\ pc' = "prog" /\ ram' = n /\ UNCHANGED job
        /\ cfg' = [cfg EXCEPT ![job.target] = Erased]
    BY <1>4 DEF EraseUpdateCfg
  <2>2. ram = cfg /\ Sound(ram) /\ ram[1 - job.target][job.cpu].flag = "confirmed"
    BY <1>1, <2>1
  <2>3. Sound(n) /\ n[1 - job.target][job.cpu].flag = "confirmed"
    BY <1>0, <1>a, <2>2, NextSound DEF FlashTypeOK
  <2>4. cfg'[1 - job.target] = cfg[1 - job.target]
    BY <1>0, <1>a, <2>1, OneSector, ErasedIsItems DEF FlashTypeOK
  <2>5. \A c \in Cpus : /\ n[1 - job.target][c].id = ram[1 - job.target][c].id
                        /\ n[1 - job.target][c].flag = ram[1 - job.target][c].flag
    <3>1. ram \in Cfgs
      BY <1>0 DEF FlashTypeOK
    <3>2. \A q \in Parts, d \in Cpus :
            /\ n[q][d].id = ram[q][d].id
            /\ q # job.target \/ d # job.cpu => n[q][d].flag = ram[q][d].flag
      BY <1>a, <3>1, NextFlags
    <3> HIDE DEF n
    <3> QED BY <1>a, <3>2
  <2> HIDE DEF n
  <2> QED BY <2>1, <2>2, <2>3, <2>4, <2>5 DEF DfuInv, CfgPcs
<1>5. CASE ProgramUpdateCfg
  <2>1. pc = "prog" /\ pc' = "idle" /\ ~Fault
    BY <1>5, FaultCuts DEF ProgramUpdateCfg, Return, Exposed, CfgPcs
  <2>2. cfg' = [cfg EXCEPT ![job.target] = ram[job.target]]
    BY <1>5, <2>1 DEF ProgramUpdateCfg
  <2>3. ram[job.target] \in [Cpus -> Items]
    BY <1>0, <1>a DEF FlashTypeOK, Cfgs
  <2>4. cfg'[job.target] = ram[job.target] /\ cfg'[1 - job.target] = cfg[1 - job.target]
    BY <1>0, <1>a, <2>2, <2>3, OneSector DEF FlashTypeOK
  <2>5. \A p \in Parts : p \in {job.target, 1 - job.target}
    BY <1>a DEF Parts
  <2>6. \A p \in Parts, c \in Cpus : /\ cfg'[p][c].id = ram[p][c].id
                                     /\ cfg'[p][c].flag = ram[p][c].flag
    BY <1>1, <2>1, <2>4, <2>5
  <2>7. Sound(cfg')
    BY <1>1, <2>1, <2>6, SameIsSound
  <2> QED BY <2>1, <2>7 DEF DfuInv, CfgPcs
<1> QED BY <1>2, <1>3, <1>4, <1>5

LEMMA RequestKeeps ==
  ASSUME DfuTypeOK, DfuTypeOK', ~cut, ~cut', DfuInv, NEW c \in Cpus,
         \/ BeginUpdate(c) \/ kmdw_dfu_switch_active_partition(c)
         \/ \E code \in {"auth_fail", "data_error"} : RejectUpdate(c, code)
  PROVE  DfuInv'
<1>0. FlashTypeOK
  BY TypeParts
<1>1. pc = "idle" /\ cfg' = cfg
  BY DEF BeginUpdate, kmdw_dfu_switch_active_partition, RejectUpdate, dfuFlash
<1>2. Sound(cfg) \/ Blank(cfg)
  BY <1>1 DEF DfuInv, CfgPcs
<1> USE DEF Rewritten, Target, Writing, Making, Updating
<1>3. CASE pc' = "idle"
  BY <1>1, <1>2, <1>3 DEF DfuInv, CfgPcs
<1>4. CASE BeginUpdate(c) /\ pc' # "idle"
  <2> DEFINE active == active_partition(cfg, c)
  <2>1. ram' = cfg
    BY <1>4 DEF BeginUpdate
  <2>2. \/ active = Unset /\ pc' = "init" /\ after' = "image0" /\ job'.target = 1
        \/ active \in Parts /\ pc' = "image" /\ job'.target = 1 - active /\ job'.cpu = c
    BY <1>1, <1>4 DEF BeginUpdate, BeginImage
  <2>3. Sound(cfg) => active \in Parts /\ cfg[active][c].flag = "confirmed"
    BY <1>0, ActiveSound DEF FlashTypeOK
  <2>4. Blank(cfg) => active = Unset
    BY ActiveBlank
  <2>5. Unset \notin Parts /\ \A q \in Parts : 1 - (1 - q) = q
    BY DEF Unset, Parts
  <2> HIDE DEF active
  <2> QED BY <1>1, <1>2, <2>1, <2>2, <2>3, <2>4, <2>5 DEF DfuInv, CfgPcs
<1>5. CASE kmdw_dfu_switch_active_partition(c) /\ pc' # "idle"
  <2>1. /\ after' = "idle"
        /\ pc' = "init" \/ (/\ pc' = "erase0" /\ ram' = Switched(cfg, c)
                            /\ ~BothErased(cfg, "scpu"))
    BY <1>1, <1>5 DEF kmdw_dfu_switch_active_partition
  <2>2. ~BothErased(cfg, "scpu") => ~Blank(cfg)
    BY ActiveBlank DEF Cpus
  <2>3. pc' = "erase0" => Sound(ram')
    BY <1>0, <1>2, <2>1, <2>2, SwitchedSound DEF FlashTypeOK
  <2> QED BY <1>1, <1>2, <2>1, <2>3 DEF DfuInv, CfgPcs
<1>6. \A code : RejectUpdate(c, code) => pc' = "idle"
  BY DEF RejectUpdate
<1> QED BY <1>3, <1>4, <1>5, <1>6

LEMMA DfuInvKept == DfuTypeOK /\ DfuTypeOK' /\ DfuInv /\ [DfuNext]_dfuVars => DfuInv'
<1> SUFFICES ASSUME DfuTypeOK, DfuTypeOK', DfuInv, [DfuNext]_dfuVars, ~cut' PROVE DfuInv'
  BY DEF DfuInv
<1>1. CASE DfuNext
  <2>1. ~cut
    BY <1>1 DEF DfuNext, PowerLoss, DfuStep, Loader, kmdw_dfu_cfg_sts_check, load_ncpu_fw,
       WriteBothSectors, dfu_init_partition_boot_cfg, EraseSector, ProgramSector, InitProgram,
       BeginAfterInit, WriteImage, EraseUpdateCfg, ProgramUpdateCfg, Fault, DfuRequest,
       BeginUpdate, RejectUpdate, kmdw_dfu_switch_active_partition, dfuHistory
  <2> QED BY <1>1, <2>1, WriteKeeps, BootKeeps, UpdateKeeps, RequestKeeps
          DEF DfuNext, DfuStep, DfuRequest
<1>2. CASE UNCHANGED dfuVars
  BY <1>2 DEF dfuVars, dfuFlash, dfuControl, dfuHistory, DfuInv, Rewritten, Target
<1> QED BY <1>1, <1>2

-----------------------------------------------------------------------------
(* The images.                                                             *)
Trusted == ~cut /\ ~switched

LEMMA FactoryIsLive ==
  \A p \in Parts, c \in Cpus : FactoryCfg[p][c].flag \in Live => p = 0
BY DEF FactoryCfg, Item, Live, Parts

LEMMA BlankIsNotLive ==
  ASSUME NEW b, Blank(b), NEW p \in Parts, NEW c \in Cpus PROVE b[p][c].flag \notin Live
BY DEF Blank, Erased, Item, Live

LEMMA WriteKeepsImages ==
  ASSUME DfuTypeOK, DfuTypeOK', DfuInv, Trusted, Trusted', ImageInv,
         WriteBothSectors \/ dfu_init_partition_boot_cfg
  PROVE  ImageInv'
<1>0. FlashTypeOK /\ FlashTypeOK' /\ PlaceTypeOK /\ 0 \in Parts /\ 1 \in Parts
  BY TypeParts DEF Parts
<1>a. Rewritten /\ ~cut /\ ~cut' /\ ~switched
  BY DEF DfuInv, Trusted
<1>b. ram[0] \in [Cpus -> Items] /\ ram[1] \in [Cpus -> Items]
  BY <1>0 DEF FlashTypeOK, Cfgs
<1>c. UNCHANGED <<image, running, job, after>>
  BY DEF WriteBothSectors, dfu_init_partition_boot_cfg, EraseSector, ProgramSector, InitProgram
<1> USE DEF Writing, Making, Updating, Started, Complete
<1>1. CASE EraseSector(0, "erase0", "prog0") \/ EraseSector(1, "erase1", "prog1")
  <2>1. pc \in {"erase0", "erase1"} /\ pc' \in {"prog0", "prog1"} /\ ram' = ram
    BY <1>1 DEF EraseSector
  <2> QED BY <1>a, <1>c, <2>1 DEF ImageInv, CfgPcs
<1>2. CASE ProgramSector(0, "prog0", "erase1")
  <2>1. pc = "prog0" /\ ~Fault
    BY <1>a, <1>2, FaultCuts DEF ProgramSector, Exposed, CfgPcs
  <2>3. pc' = "erase1" /\ ram' = ram
    BY <1>2, <2>1 DEF ProgramSector
  <2> QED BY <1>a, <1>c, <2>1, <2>3 DEF ImageInv, CfgPcs
<1>3. CASE ProgramSector(1, "prog1", after)
  <2>1. pc = "prog1" /\ ~Fault
    BY <1>a, <1>3, FaultCuts DEF ProgramSector, Exposed, CfgPcs
  <2>3. cfg' = [cfg EXCEPT ![1] = ram[1]] /\ pc' = after /\ ram' = ram
    BY <1>3, <2>1 DEF ProgramSector
  <2>2. cfg'[0] = ram[0] /\ cfg'[1] = ram[1] /\ after \in {"idle", "load"} /\ Sound(ram)
    BY <1>0, <1>a, <1>b, <2>1, <2>3, OneSector DEF FlashTypeOK, Rewritten
  <2>4. cfg' = ram
    BY <1>0, <2>2, SameCfg DEF FlashTypeOK
  <2>5. ~Blank(cfg')
    BY <2>2, <2>4, SoundNotBlank
  <2> QED BY <1>a, <1>c, <2>1, <2>3, <2>2, <2>4, <2>5 DEF ImageInv, CfgPcs
<1>4. CASE pc = "init" /\ pc' = "init1"
  BY <1>a, <1>c, <1>4 DEF ImageInv, CfgPcs
<1>5. CASE EraseSector(1, "init1", "initP0")
  <2>1. pc = "init1" /\ pc' = "initP0"
    BY <1>5 DEF EraseSector
  <2> QED BY <1>a, <1>c, <2>1 DEF ImageInv, CfgPcs
<1>6. CASE InitProgram(0, "initP0", "initP1")
  <2>1. pc = "initP0" /\ pc' = "initP1"
    BY <1>6 DEF InitProgram
  <2> QED BY <1>a, <1>c, <2>1 DEF ImageInv, CfgPcs
<1>7. CASE InitProgram(1, "initP1", after)
  <2>1. pc = "initP1" /\ ~Fault
    BY <1>a, <1>7, FaultCuts DEF InitProgram, Exposed, CfgPcs
  <2>3. cfg' = [cfg EXCEPT ![1] = ram[1]] /\ pc' = after
    BY <1>7, <2>1 DEF InitProgram
  <2>2. cfg'[0] = ram[0] /\ cfg'[1] = ram[1] /\ ram = FactoryCfg
    BY <1>0, <1>a, <1>b, <2>1, <2>3, OneSector DEF FlashTypeOK, Rewritten
  <2>4. cfg' = FactoryCfg
    BY <1>0, <2>2, SameCfg DEF FlashTypeOK
  <2>5. \A c \in Cpus : image[c][0] # Torn
    BY <1>a, <2>1 DEF ImageInv
  <2>6. after \in {"idle", "load", "load0", "image0"}
    BY <1>0 DEF PlaceTypeOK
  <2>7. \A p \in Parts, c \in Cpus : cfg'[p][c].flag \in Live => image'[c][p] # Torn
    BY <1>c, <2>4, <2>5, FactoryIsLive
  <2>8. after = "image0" => job.ver # Torn
    BY <1>a, <2>1 DEF ImageInv
  <2>9. after \in {"idle", "image0"} => running # Torn
    BY <1>a, <2>1 DEF ImageInv
  <2> QED BY <1>c, <2>3, <2>5, <2>6, <2>7, <2>8, <2>9 DEF ImageInv, CfgPcs
<1> QED BY <1>1, <1>2, <1>3, <1>4, <1>5, <1>6, <1>7
        DEF WriteBothSectors, dfu_init_partition_boot_cfg

LEMMA BootKeepsImages ==
  ASSUME DfuTypeOK, DfuTypeOK', DfuInv, Trusted, Trusted', ImageInv,
         PowerLoss \/ Loader \/ kmdw_dfu_cfg_sts_check \/ load_ncpu_fw
  PROVE  ImageInv'
<1>0. FlashTypeOK /\ FlashTypeOK' /\ "ncpu" \in Cpus
  BY TypeParts DEF Cpus
<1>a. (pc \notin CfgPcs => Sound(cfg) \/ Blank(cfg)) /\ ~cut /\ ~cut' /\ ~switched
  BY DEF DfuInv, Trusted
<1> USE DEF Writing, Making, Updating, Started
<1>1. CASE PowerLoss
  <2>1. ~Exposed /\ UNCHANGED <<cfg, image>> /\ pc' = "off"
    BY <1>a, <1>1 DEF PowerLoss, dfuFlash
  <2>3. pc \notin CfgPcs
    BY <2>1 DEF Exposed
  <2>2. Complete(cfg)
    <3>1. CASE pc # "image"
      BY <1>a, <2>3, <3>1 DEF ImageInv
    <3>2. CASE pc = "image"
      <4>1. cfg[job.target][job.cpu].flag \notin {"first", "post"}
        BY <2>1, <3>2 DEF Exposed
      <4>2. /\ Sound(cfg) /\ cfg[1 - job.target][job.cpu].flag = "confirmed"
            /\ job.cpu \in Cpus /\ job.target \in Parts
        BY <1>a, <3>2, TypeParts DEF DfuInv, Target, JobTypeOK
      <4>3. cfg[job.target][job.cpu].flag # "confirmed"
        BY <4>2 DEF Sound, Parts
      <4> QED BY <1>a, <3>2, <4>1, <4>3 DEF ImageInv, Complete, Live
    <3> QED BY <3>1, <3>2
  <2>4. Blank(cfg) => \A c \in Cpus : image[c][0] # Torn
    BY <1>a, <2>3 DEF ImageInv
  <2> QED BY <2>1, <2>2, <2>4 DEF ImageInv, CfgPcs, Complete
<1>2. CASE Loader
  <2>1. pc = "off" /\ pc' = "check" /\ cfg' = LoadedCfg(cfg) /\ image' = image
    BY <1>2 DEF Loader, LoadedCfg, LoadedItem
  <2>3. Complete(cfg) /\ (Blank(cfg) => \A c \in Cpus : image[c][0] # Torn)
    BY <1>a, <2>1 DEF ImageInv, CfgPcs
  <2>2. Blank(cfg') => Blank(cfg)
    BY <1>0, <2>1, LoadedSound DEF FlashTypeOK
  <2>4. \A p \in Parts, c \in Cpus : cfg'[p][c].flag \in Live => cfg[p][c].flag \in Live
    BY <1>0, <2>1, LoadedSound DEF FlashTypeOK
  <2> QED BY <2>1, <2>3, <2>2, <2>4 DEF ImageInv, CfgPcs, Complete
<1>3. CASE kmdw_dfu_cfg_sts_check
  <2>1. pc = "check" /\ cfg' = cfg /\ image' = image
    BY <1>3 DEF kmdw_dfu_cfg_sts_check, dfuFlash
  <2>3. Complete(cfg) /\ (Blank(cfg) => \A c \in Cpus : image[c][0] # Torn)
    BY <1>a, <2>1 DEF ImageInv, CfgPcs
  <2>2. pc' = "load" \/ (pc' = "erase0" /\ after' = "load" /\ ram' = ConfirmAll(cfg))
    BY <1>3 DEF kmdw_dfu_cfg_sts_check
  <2>4. \A p \in Parts, c \in Cpus :
          ConfirmAll(cfg)[p][c].flag \in Live => cfg[p][c].flag \in Live
    BY <1>0, ConfirmAllSound DEF FlashTypeOK
  <2> QED BY <2>1, <2>3, <2>2, <2>4 DEF ImageInv, CfgPcs, Complete
<1>4. CASE load_ncpu_fw
  <2>1. pc \in {"load", "load0"} /\ cfg' = cfg /\ image' = image
    BY <1>4 DEF load_ncpu_fw, dfuFlash
  <2>3. Complete(cfg) /\ (Blank(cfg) \/ pc = "load0" => \A c \in Cpus : image[c][0] # Torn)
    BY <1>a, <2>1 DEF ImageInv, CfgPcs
  <2>2. CASE pc' = "init"
    <3>1. after' = "load0" /\ active_partition(cfg, "ncpu") = Unset
      BY <1>4, <2>2 DEF load_ncpu_fw, NcpuStarts
    <3>2. Blank(cfg)
      BY <1>0, <1>a, <2>1, <3>1, ActiveSound DEF CfgPcs, FlashTypeOK, Unset, Parts
    <3> QED BY <2>1, <2>3, <2>2, <3>1, <3>2 DEF ImageInv, CfgPcs, Complete
  <2>4. CASE pc' # "init"
    <3>1. pc' = "idle" /\ \/ running' = image["ncpu"][0] /\ pc = "load0"
                          \/ /\ running' = image["ncpu"][BootPartition(cfg, "ncpu")]
                             /\ active_partition(cfg, "ncpu") # Unset
      BY <1>4, <2>4 DEF load_ncpu_fw, NcpuStarts
    <3>2. ~Blank(cfg) => /\ BootPartition(cfg, "ncpu") \in Parts
                         /\ cfg[BootPartition(cfg, "ncpu")]["ncpu"].flag = "confirmed"
      BY <1>0, <1>a, <2>1, ActiveSound DEF CfgPcs, FlashTypeOK
    <3>3. active_partition(cfg, "ncpu") # Unset => ~Blank(cfg)
      BY <1>0, ActiveBlank
    <3>4. running' # Torn
      BY <1>0, <2>3, <3>1, <3>2, <3>3 DEF Complete, Live
    <3> QED BY <2>1, <2>3, <3>1, <3>4 DEF ImageInv, CfgPcs, Complete
  <2> QED BY <2>2, <2>4
<1> QED BY <1>1, <1>2, <1>3, <1>4

LEMMA UpdateKeepsImages ==
  ASSUME DfuTypeOK, DfuTypeOK', DfuInv, Trusted, Trusted', ImageInv,
         BeginAfterInit \/ WriteImage \/ EraseUpdateCfg \/ ProgramUpdateCfg
  PROVE  ImageInv'
<1>0. FlashTypeOK /\ FlashTypeOK' /\ JobTypeOK
  BY TypeParts
<1>a. (pc \notin CfgPcs => Sound(cfg) \/ Blank(cfg)) /\ Target /\ ~cut /\ ~cut' /\ ~switched
  BY DEF DfuInv, Trusted
<1>b. /\ job.cpu \in Cpus /\ job.target \in Parts /\ 1 - job.target \in Parts
      /\ 1 - job.target # job.target /\ running' = running
  BY <1>0 DEF JobTypeOK, Parts, BeginAfterInit, BeginImage, WriteImage, EraseUpdateCfg,
     ProgramUpdateCfg
<1>c. \A v, p \in Parts, c \in Cpus :
        [image EXCEPT ![job.cpu][job.target] = v][c][p] =
          IF c = job.cpu /\ p = job.target THEN v ELSE image[c][p]
  BY <1>0, <1>b DEF FlashTypeOK
<1> USE DEF Writing, Making, Updating, Started
<1>1. CASE BeginAfterInit
  <2>1. /\ pc = "image0" /\ pc' = "image" /\ cfg' = cfg /\ cfg = FactoryCfg /\ job.target = 1
        /\ image' = [image EXCEPT ![job.cpu][1] = Torn]
        /\ job' = [cpu |-> job.cpu, target |-> 1, ver |-> job.ver]
    BY <1>a, <1>1 DEF BeginAfterInit, BeginImage, Target
  <2>3. Complete(cfg) /\ job.ver # Torn /\ running # Torn
    BY <1>a, <2>1 DEF ImageInv, CfgPcs
  <2>2. \A p \in Parts, c \in Cpus : p # 1 \/ c # job.cpu => image'[c][p] = image[c][p]
    BY <1>c, <2>1
  <2> QED BY <1>b, <2>1, <2>3, <2>2, FactoryIsSound DEF ImageInv, CfgPcs, Complete
<1>2. CASE WriteImage
  <2>1. pc = "image" /\ UNCHANGED <<cfg, ram, job>> /\ Sound(cfg)
    BY <1>a, <1>2 DEF WriteImage, Target
  <2>3. /\ job.ver # Torn /\ running # Torn
        /\ \A p \in Parts, c \in Cpus :
             cfg[p][c].flag \in Live /\ (p # job.target \/ c # job.cpu) => image[c][p] # Torn
    BY <1>a, <2>1 DEF ImageInv, CfgPcs
  <2>2. ~Blank(cfg)
    BY <2>1, SoundNotBlank
  <2>4. CASE image' = [image EXCEPT ![job.cpu][job.target] = job.ver] /\ pc' = "cfg"
    <3>1. image'[job.cpu][job.target] = job.ver
      BY <1>b, <1>c, <2>4
    <3>2. \A p \in Parts, c \in Cpus :
            p # job.target \/ c # job.cpu => image'[c][p] = image[c][p]
      BY <1>c, <2>4
    <3>3. \A p \in Parts, c \in Cpus : cfg[p][c].flag \in Live => image'[c][p] # Torn
      BY <2>3, <3>1, <3>2
    <3> QED BY <1>b, <2>1, <2>3, <2>2, <2>4, <3>1, <3>3 DEF ImageInv, CfgPcs, Complete
  <2>5. CASE Fault /\ pc' = "idle" /\ image' = image
    <3>1. ~Exposed
      BY <1>a, <2>5, FaultCuts
    <3>2. cfg[job.target][job.cpu].flag \notin {"first", "post"}
      BY <2>1, <3>1 DEF Exposed
    <3>3. cfg[job.target][job.cpu].flag # "confirmed"
      BY <1>a, <1>b, <2>1 DEF Target, Sound, Parts
    <3>4. \A p \in Parts, c \in Cpus : cfg[p][c].flag \in Live => image[c][p] # Torn
      BY <2>3, <3>2, <3>3 DEF Live
    <3> QED BY <1>b, <2>1, <2>3, <2>2, <2>5, <3>4 DEF ImageInv, CfgPcs, Complete
  <2> QED BY <1>2, <2>4, <2>5 DEF WriteImage, Return
<1>3. CASE EraseUpdateCfg
  <2> DEFINE n == NextCfg(ram, job.cpu, job.target)
  <2>1. pc = "cfg" /\ pc' = "prog" /\ ram' = n /\ image' = image /\ ram = cfg
    BY <1>a, <1>3 DEF EraseUpdateCfg, Target
  <2>3. Complete(cfg) /\ image[job.cpu][job.target] # Torn /\ running # Torn
    BY <1>a, <2>1 DEF ImageInv, CfgPcs
  <2>2. ram \in Cfgs
    BY <1>0 DEF FlashTypeOK
  <2>4. \A q \in Parts, d \in Cpus :
          /\ n[q][d].id = ram[q][d].id
          /\ q # job.target \/ d # job.cpu => n[q][d].flag = ram[q][d].flag
    BY <1>b, <2>2, NextFlags
  <2> HIDE DEF n
  <2>5. \A p \in Parts, c \in Cpus : ram'[p][c].flag \in Live => image'[c][p] # Torn
    BY <2>1, <2>3, <2>4 DEF Complete
  <2> QED BY <1>b, <2>1, <2>3, <2>5 DEF ImageInv, CfgPcs, Complete
<1>4. CASE ProgramUpdateCfg
  <2>1. pc = "prog" /\ pc' = "idle" /\ ~Fault /\ image' = image
    BY <1>a, <1>4, FaultCuts DEF ProgramUpdateCfg, Return, Exposed, CfgPcs
  <2>3. cfg' = [cfg EXCEPT ![job.target] = ram[job.target]]
    BY <1>4, <2>1 DEF ProgramUpdateCfg
  <2>2. ram[job.target] \in [Cpus -> Items]
    BY <1>0, <1>b DEF FlashTypeOK, Cfgs
  <2>4. cfg'[job.target] = ram[job.target] /\ cfg'[1 - job.target] = cfg[1 - job.target]
    BY <1>0, <1>b, <2>3, <2>2, OneSector DEF FlashTypeOK
  <2>5. \A p \in Parts : p \in {job.target, 1 - job.target}
    BY <1>b DEF Parts
  <2>6. \A p \in Parts, c \in Cpus : /\ cfg'[p][c].id = ram[p][c].id
                                     /\ cfg'[p][c].flag = ram[p][c].flag
    BY <1>a, <2>1, <2>4, <2>5 DEF Target
  <2>7. ~Blank(cfg')
    BY <1>a, <2>1, <2>6, SameIsSound, SoundNotBlank DEF Target
  <2>8. Complete(ram) /\ running # Torn
    BY <1>a, <2>1 DEF ImageInv
  <2> QED BY <1>b, <2>1, <2>6, <2>7, <2>8 DEF ImageInv, CfgPcs, Complete
<1> QED BY <1>1, <1>2, <1>3, <1>4

LEMMA RequestKeepsImages ==
  ASSUME DfuTypeOK, DfuTypeOK', DfuInv, Trusted, Trusted', ImageInv, NEW c \in Cpus,
         \/ BeginUpdate(c) \/ kmdw_dfu_switch_active_partition(c)
         \/ \E code \in {"auth_fail", "data_error"} : RejectUpdate(c, code)
  PROVE  ImageInv'
<1>0. FlashTypeOK /\ done.update \in Nat
  BY TypeParts DEF PastTypeOK, Counters
<1>1. pc = "idle" /\ cfg' = cfg /\ running' = running
  BY DEF BeginUpdate, kmdw_dfu_switch_active_partition, RejectUpdate, dfuFlash
<1>2. /\ Sound(cfg) \/ Blank(cfg)
      /\ Complete(cfg) /\ (Blank(cfg) => \A d \in Cpus : image[d][0] # Torn) /\ running # Torn
  BY <1>1 DEF DfuInv, Trusted, ImageInv, CfgPcs, Started
<1> USE DEF Writing, Making, Updating, Started
<1>3. CASE pc' = "idle" /\ image' = image
  BY <1>1, <1>2, <1>3 DEF ImageInv, CfgPcs, Complete
<1>4. CASE BeginUpdate(c) /\ ~(pc' = "idle" /\ image' = image)
  <2> DEFINE active == active_partition(cfg, c)
  <2>1. \/ /\ active = Unset /\ pc' = "init" /\ after' = "image0" /\ image' = image
           /\ job'.ver = done.update + 2
        \/ /\ active \in Parts /\ pc' = "image" /\ job'.target = 1 - active /\ job'.cpu = c
           /\ image' = [image EXCEPT ![c][1 - active] = Torn] /\ job'.ver = done.update + 2
    BY <1>1, <1>4 DEF BeginUpdate, BeginImage
  <2>3. job'.ver # Torn
    BY <1>0, <2>1 DEF Torn
  <2>2. active = Unset => Blank(cfg)
    BY <1>0, <1>2, ActiveSound DEF FlashTypeOK, Unset, Parts
  <2>4. active \in Parts => ~Blank(cfg)
    BY ActiveBlank DEF Unset, Parts
  <2> HIDE DEF active
  <2>5. CASE active = Unset /\ pc' = "init" /\ after' = "image0" /\ image' = image
    BY <1>1, <1>2, <2>3, <2>2, <2>5 DEF ImageInv, CfgPcs, Complete
  <2>6. CASE /\ active \in Parts /\ pc' = "image" /\ job'.target = 1 - active /\ job'.cpu = c
             /\ image' = [image EXCEPT ![c][1 - active] = Torn]
    <3>1. \A p \in Parts, d \in Cpus :
            p # 1 - active \/ d # c => image'[d][p] = image[d][p]
      BY <1>0, <2>6 DEF FlashTypeOK
    <3> QED BY <1>1, <1>2, <2>3, <2>4, <2>6, <3>1 DEF ImageInv, CfgPcs, Complete
  <2> QED BY <2>1, <2>5, <2>6
<1>5. CASE kmdw_dfu_switch_active_partition(c) /\ pc' # "idle"
  <2>1. /\ after' = "idle" /\ image' = image /\ pc' = "init"
        /\ BothErased(cfg, "scpu") \/ SameItem(cfg, "ncpu")
    BY <1>1, <1>5 DEF kmdw_dfu_switch_active_partition, dfuFlash, Trusted
  <2>3. Blank(cfg)
    BY <1>2, <2>1 DEF Sound, BothErased, SameItem, Parts, Cpus
  <2> QED BY <1>1, <1>2, <2>1, <2>3 DEF ImageInv, CfgPcs, Complete
<1>6. \A code : RejectUpdate(c, code) => pc' = "idle" /\ image' = image
  BY DEF RejectUpdate, dfuFlash
<1>7. kmdw_dfu_switch_active_partition(c) => image' = image
  BY DEF kmdw_dfu_switch_active_partition, dfuFlash
<1> QED BY <1>3, <1>4, <1>5, <1>6, <1>7

LEMMA ImageInvKept ==
  DfuTypeOK /\ DfuTypeOK' /\ DfuInv /\ ImageInv /\ [DfuNext]_dfuVars => ImageInv'
<1> SUFFICES ASSUME DfuTypeOK, DfuTypeOK', DfuInv, ImageInv, [DfuNext]_dfuVars, Trusted'
             PROVE  ImageInv'
  BY DEF ImageInv, Trusted
<1>1. CASE DfuNext
  <2>1. ~cut
    BY <1>1 DEF Trusted, DfuNext, PowerLoss, DfuStep, Loader, kmdw_dfu_cfg_sts_check,
       load_ncpu_fw,
       WriteBothSectors, dfu_init_partition_boot_cfg, EraseSector, ProgramSector, InitProgram,
       BeginAfterInit, WriteImage, EraseUpdateCfg, ProgramUpdateCfg, Fault, DfuRequest,
       BeginUpdate, RejectUpdate, kmdw_dfu_switch_active_partition, dfuHistory
  <2>2. ~switched
    BY <1>1 DEF Trusted, DfuNext, PowerLoss, DfuStep, Loader, kmdw_dfu_cfg_sts_check,
       load_ncpu_fw,
       WriteBothSectors, dfu_init_partition_boot_cfg, EraseSector, ProgramSector, InitProgram,
       BeginAfterInit, WriteImage, EraseUpdateCfg, ProgramUpdateCfg, Fault, DfuRequest,
       BeginUpdate, RejectUpdate, kmdw_dfu_switch_active_partition, dfuHistory
  <2>3. Trusted
    BY <2>1, <2>2 DEF Trusted
  <2> QED BY <1>1, <2>3, WriteKeepsImages, BootKeepsImages, UpdateKeepsImages,
             RequestKeepsImages DEF DfuNext, DfuStep, DfuRequest
<1>2. CASE UNCHANGED dfuVars
  BY <1>2 DEF dfuVars, dfuFlash, dfuControl, dfuHistory, ImageInv, Started, Complete, Trusted
<1> QED BY <1>1, <1>2

-----------------------------------------------------------------------------
LEMMA DfuStarts == DfuInit => DfuTypeOK /\ DfuInv /\ ImageInv
<1> SUFFICES ASSUME DfuInit PROVE DfuTypeOK /\ DfuInv /\ ImageInv
  OBVIOUS
<1>1. [p \in Parts |-> Erased] \in Cfgs /\ Blank([p \in Parts |-> Erased])
  BY ErasedIsItems DEF Cfgs, Blank
<1>2. cfg \in Cfgs /\ ram \in Cfgs /\ (Sound(cfg) \/ Blank(cfg))
  BY <1>1, FactoryIsSound DEF DfuInit
<1>3. image \in [Cpus -> [Parts -> Nat]]
  BY DEF DfuInit, Torn
<1>4. PlaceTypeOK /\ JobTypeOK
  BY DEF DfuInit, PlaceTypeOK, JobTypeOK, DfuPcs, NoJob, Result, Codes, Torn, Cpus, Parts
<1>5. PastTypeOK
  BY DfuAssumption DEF DfuInit, PastTypeOK
<1>6. DfuInv
  BY <1>2 DEF DfuInit, DfuInv, Rewritten, Target, Writing, Making, Updating
<1>7. pc = "off" /\ \A c \in Cpus : image[c] = [p \in Parts |-> IF p = 0 THEN 1 ELSE Torn]
  BY DEF DfuInit
<1>8. \A c \in Cpus : image[c][0] # Torn
  <2>1. [p \in Parts |-> IF p = 0 THEN 1 ELSE Torn][0] = 1
    BY DEF Parts
  <2> QED BY <1>7, <2>1 DEF Torn
<1>9. Complete(cfg)
  BY <1>8, FactoryIsLive, BlankIsNotLive, <1>1 DEF DfuInit, Complete
<1>10. ImageInv
  BY <1>7, <1>8, <1>9 DEF ImageInv, Started, Writing, Making, Updating
<1> QED BY <1>2, <1>3, <1>4, <1>5, <1>6, <1>10, TypeParts DEF FlashTypeOK

LEMMA DfuAlways == DfuSpec => [](DfuTypeOK /\ DfuInv /\ ImageInv)
<1>1. DfuTypeOK /\ DfuInv /\ ImageInv /\ [DfuNext]_dfuVars => (DfuTypeOK /\ DfuInv /\ ImageInv)'
  BY DfuTypesKept, DfuInvKept, ImageInvKept
<1> QED BY <1>1, DfuStarts, PTL DEF DfuSpec

(* Configurations, images and updates keep their types for any number of   *)
(* updates, switches, faults and reboots; the sequence numbers keep their  *)
(* width.                                                                  *)
THEOREM DfuTypes == DfuSpec => []DfuTypeOK
BY DfuAlways, PTL

(* For any number of updates, switches, faults and reboots exactly one     *)
(* partition of each processor is confirmed whenever kmdw_dfu.c does not   *)
(* rewrite the configuration, unless that was interrupted.                 *)
THEOREM DfuOneConfirmed == DfuSpec => []OneConfirmed
<1>1. DfuTypeOK /\ DfuInv => OneConfirmed
  <2> SUFFICES ASSUME DfuTypeOK, DfuInv, ~cut, pc \notin CfgPcs, NEW c \in Cpus
               PROVE  BothErased(cfg, c) \/ \E p \in Parts : Confirmed(c) = {p}
    BY DEF OneConfirmed
  <2>1. CASE Blank(cfg)
    BY <2>1, ActiveBlank
  <2>2. CASE Sound(cfg)
    <3>1. PICK p \in Parts : /\ cfg[p][c].flag = "confirmed"
                             /\ cfg[1 - p][c].flag \in {"first", "post", "not"}
      BY <2>2 DEF Sound
    <3>2. \A q \in Parts : q = p \/ q = 1 - p
      BY DEF Parts
    <3>3. Confirmed(c) = {p}
      BY <3>1, <3>2 DEF Confirmed
    <3> QED BY <3>3
  <2> QED BY <2>1, <2>2 DEF DfuInv
<1> QED BY <1>1, DfuAlways, PTL

(* For any number of updates, switches, faults and reboots the image that  *)
(* kmdw_dfu_update_scpu or ..._ncpu erases and writes is not the one a     *)
(* boot would use.                                                         *)
THEOREM DfuSparesBoot == DfuSpec => []ImageWriteSparesBoot
<1>1. DfuTypeOK /\ DfuInv => ImageWriteSparesBoot
  <2> SUFFICES ASSUME DfuTypeOK, DfuInv, pc = "image", ~cut
               PROVE  BootPartition(cfg, job.cpu) # job.target
    BY DEF ImageWriteSparesBoot
  <2>1. cfg \in Cfgs /\ job.cpu \in Cpus /\ job.target \in Parts
    BY TypeParts DEF FlashTypeOK, JobTypeOK
  <2>2. Sound(cfg) /\ cfg[1 - job.target][job.cpu].flag = "confirmed"
    BY DEF DfuInv, Target, Updating
  <2>3. cfg[BootPartition(cfg, job.cpu)][job.cpu].flag = "confirmed"
    BY <2>1, <2>2, ActiveSound
  <2>4. cfg[job.target][job.cpu].flag # "confirmed"
    BY <2>1, <2>2 DEF Sound, Parts
  <2> QED BY <2>3, <2>4
<1> QED BY <1>1, DfuAlways, PTL

(* For any number of updates, faults and reboots the NCPU runs a complete  *)
(* image when the device takes commands, unless a moment that the two      *)
(* sectors do not cover was hit or the partitions were switched.           *)
THEOREM DfuBootsComplete == DfuSpec => []BootsComplete
<1>1. ImageInv => BootsComplete
  BY DEF ImageInv, BootsComplete, Started
<1> QED BY <1>1, DfuAlways, PTL

-----------------------------------------------------------------------------
(* The update implements FirmwareUpdate.                                   *)
NoFirst(b)        == \A p \in Parts, c \in Cpus : b[p][c].flag # "first"
PendingFlags      == {"first", "post"}
NothingPending(b) == \A p \in Parts : b[p]["ncpu"].flag \notin PendingFlags

(* The NCPU was not started yet.                                           *)
Booting ==
  \/ pc \in {"off", "check", "load", "load0"}
  \/ pc \in Making \cup Writing /\ after \in {"load", "load0"}

(* When the NCPU is started its pending image was confirmed.               *)
BootInv ==
  Trusted =>
    /\ Booting => running = Torn
    /\ pc = "check" => NoFirst(cfg)
    /\ pc = "load" => NothingPending(cfg)
    /\ pc \in Writing => after = "load" /\ NothingPending(ram)
    /\ pc = "erase0" => Sound(cfg) /\ NoFirst(cfg) /\ ram = ConfirmAll(cfg)
    /\ pc = "init" => Blank(cfg)
    /\ pc = "load0" => cfg = FactoryCfg

(* The image being installed is newer than every other one.                *)
Preparing ==
  \/ pc \in {"image0", "image"}
  \/ pc \in Making /\ after = "image0"

VersionInv ==
  /\ \A c \in Cpus, p \in Parts : image[c][p] <= done.update + 1
  /\ Preparing => /\ job.ver = done.update + 1
                  /\ \A c \in Cpus, p \in Parts : image[c][p] <= done.update
  /\ pc = "cfg" => /\ image[job.cpu][job.target] = done.update + 1
                   /\ image[job.cpu][1 - job.target] <= done.update
  /\ pc \in Writing => after # "image0"

(* What a boot from configuration b would use, and use next.               *)
CurrentIn(b, im) == im["ncpu"][BootPartition(b, "ncpu")]
PendingIn(b, im) ==
  IF \E p \in Parts : b[p]["ncpu"].flag \in PendingFlags
  THEN im["ncpu"][CHOOSE p \in Parts : b[p]["ncpu"].flag \in PendingFlags]
  ELSE Torn

LEMMA ImagesIn ==
  /\ CurrentImage = CurrentIn(Effective, image) /\ PendingImage = PendingIn(Effective, image)
  /\ CurrentImage' = CurrentIn(Effective', image') /\ PendingImage' = PendingIn(Effective', image')
BY DEF CurrentImage, PendingImage, CurrentIn, PendingIn, PendingFlags

LEMMA SoundValues ==
  ASSUME NEW b \in Cfgs, Sound(b), NEW im, NEW p \in Parts, b[p]["ncpu"].flag = "confirmed"
  PROVE  /\ CurrentIn(b, im) = im["ncpu"][p]
         /\ b[1 - p]["ncpu"].flag \in PendingFlags => PendingIn(b, im) = im["ncpu"][1 - p]
         /\ b[1 - p]["ncpu"].flag \notin PendingFlags => PendingIn(b, im) = Torn
<1>0. "ncpu" \in Cpus /\ 1 - p \in Parts /\ \A q \in Parts : q = p \/ q = 1 - p
  BY DEF Cpus, Parts
<1>1. b[1 - p]["ncpu"].flag # "confirmed"
  BY <1>0 DEF Sound, Parts
<1>2. BootPartition(b, "ncpu") \in Parts /\ b[BootPartition(b, "ncpu")]["ncpu"].flag = "confirmed"
  BY <1>0, ActiveSound
<1>3. BootPartition(b, "ncpu") = p
  BY <1>0, <1>1, <1>2
<1>4. b[p]["ncpu"].flag \notin PendingFlags
  BY DEF PendingFlags
<1>5. ASSUME b[1 - p]["ncpu"].flag \in PendingFlags
      PROVE  (CHOOSE q \in Parts : b[q]["ncpu"].flag \in PendingFlags) = 1 - p
  BY <1>0, <1>4, <1>5
<1> QED BY <1>0, <1>3, <1>4, <1>5 DEF CurrentIn, PendingIn

LEMMA BlankValues ==
  ASSUME NEW b, Blank(b), NEW im
  PROVE  CurrentIn(b, im) = im["ncpu"][0] /\ PendingIn(b, im) = Torn
<1>1. BootPartition(b, "ncpu") = 0
  BY ActiveBlank DEF BootPartition, Unset, Cpus
<1>2. \A p \in Parts : b[p]["ncpu"].flag \notin PendingFlags
  BY DEF Blank, Erased, Item, PendingFlags, Cpus
<1> QED BY <1>1, <1>2 DEF CurrentIn, PendingIn

LEMMA FactoryValues ==
  ASSUME NEW im
  PROVE  CurrentIn(FactoryCfg, im) = im["ncpu"][0] /\ PendingIn(FactoryCfg, im) = Torn
<1>1. /\ FactoryCfg[0]["ncpu"].flag = "confirmed" /\ FactoryCfg[1]["ncpu"].flag = "not"
      /\ 0 \in Parts /\ 1 - 0 = 1
  BY DEF FactoryCfg, Item, Parts, Cpus
<1> QED BY <1>1, FactoryIsSound, SoundValues DEF PendingFlags

(* Only which of the NCPU's items are confirmed or pending counts.         *)
LEMMA SameValues ==
  ASSUME NEW a \in Cfgs, NEW b \in Cfgs, Sound(a), Sound(b), NEW im,
         \A p \in Parts : /\ a[p]["ncpu"].flag = "confirmed" => b[p]["ncpu"].flag = "confirmed"
                          /\ a[p]["ncpu"].flag \in PendingFlags <=> b[p]["ncpu"].flag \in PendingFlags
  PROVE  CurrentIn(a, im) = CurrentIn(b, im) /\ PendingIn(a, im) = PendingIn(b, im)
<1>1. PICK p \in Parts : a[p]["ncpu"].flag = "confirmed"
  BY DEF Sound, Cpus
<1>2. b[p]["ncpu"].flag = "confirmed" /\ 1 - p \in Parts
  BY <1>1 DEF Parts
<1>3. CurrentIn(a, im) = im["ncpu"][p] /\ CurrentIn(b, im) = im["ncpu"][p]
  BY <1>1, <1>2, SoundValues
<1>4. a[1 - p]["ncpu"].flag \in PendingFlags <=> b[1 - p]["ncpu"].flag \in PendingFlags
  BY <1>2
<1>5. CASE a[1 - p]["ncpu"].flag \in PendingFlags
  <2>1. PendingIn(a, im) = im["ncpu"][1 - p]
    BY <1>1, <1>5, SoundValues
  <2>2. PendingIn(b, im) = im["ncpu"][1 - p]
    BY <1>2, <1>4, <1>5, SoundValues
  <2> QED BY <1>3, <2>1, <2>2
<1>6. CASE a[1 - p]["ncpu"].flag \notin PendingFlags
  <2>1. PendingIn(a, im) = Torn
    BY <1>1, <1>6, SoundValues
  <2>2. PendingIn(b, im) = Torn
    BY <1>2, <1>4, <1>6, SoundValues
  <2> QED BY <1>3, <2>1, <2>2
<1> QED BY <1>5, <1>6

(* The check at boot confirms the pending image of the NCPU.               *)
LEMMA ConfirmAllNcpu ==
  ASSUME NEW b \in Cfgs, Sound(b), NEW p \in Parts, b[p]["ncpu"].flag = "confirmed"
  PROVE  /\ b[1 - p]["ncpu"].flag = "post" => /\ ConfirmAll(b)[1 - p]["ncpu"].flag = "confirmed"
                                              /\ ConfirmAll(b)[p]["ncpu"].flag = "not"
         /\ b[1 - p]["ncpu"].flag # "post" =>
              \A q \in Parts : ConfirmAll(b)[q]["ncpu"] = b[q]["ncpu"]
<1>0. PICK n \in Cpus, m \in Cpus : n = "ncpu" /\ m = "scpu"
  BY DEF Cpus
<1>a. n # m /\ 0 \in Parts /\ 1 \in Parts /\ 1 - p \in Parts
  BY <1>0 DEF Parts
<1>1. PICK b1 \in Cfgs : /\ b1 = Confirm(b, m, 0) /\ Sound(b1)
                        /\ \A q \in Parts : b1[q][n] = b[q][n]
  BY <1>a, ConfirmSound
<1>2. PICK b2 \in Cfgs :
      /\ b2 = Confirm(b1, n, 0) /\ Sound(b2)
      /\ b1[0][n].flag # "post" => b2 = b1
      /\ b1[0][n].flag = "post" => b2[0][n].flag = "confirmed" /\ b2[1 - 0][n].flag = "not"
  <2>1. Confirm(b1, n, 0) \in Cfgs /\ Sound(Confirm(b1, n, 0))
    BY <1>a, <1>1, ConfirmSound
  <2>2. b1[0][n].flag # "post" => Confirm(b1, n, 0) = b1
    BY <1>a, ConfirmSound
  <2>3. b1[0][n].flag = "post" => /\ Confirm(b1, n, 0)[0][n].flag = "confirmed"
                                  /\ Confirm(b1, n, 0)[1 - 0][n].flag = "not"
    BY <1>a, <1>1, ConfirmSound
  <2> QED BY <2>1, <2>2, <2>3
<1>3. PICK b3 \in Cfgs : /\ b3 = Confirm(b2, m, 1) /\ Sound(b3)
                        /\ \A q \in Parts : b3[q][n] = b2[q][n]
  <2>1. Sound(b2)
    BY <1>2
  <2> QED BY <1>a, <2>1, ConfirmSound
<1>4. PICK b4 \in Cfgs :
      /\ b4 = Confirm(b3, n, 1)
      /\ b3[1][n].flag # "post" => b4 = b3
      /\ b3[1][n].flag = "post" => b4[1][n].flag = "confirmed" /\ b4[1 - 1][n].flag = "not"
  <2>1. Confirm(b3, n, 1) \in Cfgs
    BY <1>a, ConfirmSound
  <2>2. b3[1][n].flag # "post" => Confirm(b3, n, 1) = b3
    BY <1>a, ConfirmSound
  <2>3. b3[1][n].flag = "post" => /\ Confirm(b3, n, 1)[1][n].flag = "confirmed"
                                  /\ Confirm(b3, n, 1)[1 - 1][n].flag = "not"
    BY <1>a, <1>3, ConfirmSound
  <2> QED BY <2>1, <2>2, <2>3
<1>5. ConfirmAll(b) = b4
  BY <1>0, <1>1, <1>2, <1>3, <1>4 DEF ConfirmAll
<1>6. b[p][n].flag = "confirmed"
  BY <1>0
<1>7. CASE p = 0
  <2>1. 1 - p = 1 /\ 1 - 1 = 0
    BY <1>7
  <2>2. b3[0][n] = b[0][n] /\ b3[1][n] = b[1][n]
    BY <1>a, <1>1, <1>2, <1>3, <1>6, <1>7
  <2> QED BY <1>0, <1>4, <1>5, <1>7, <2>1, <2>2 DEF Parts
<1>8. CASE p = 1
  <2>1. 1 - p = 0 /\ 1 - 0 = 1
    BY <1>8
  <2>2. b1[0][n] = b[0][n] /\ b1[1][n] = b[1][n] /\ b3[0][n] = b2[0][n] /\ b3[1][n] = b2[1][n]
    BY <1>a, <1>1, <1>3
  <2>3. CASE b[0][n].flag = "post"
    <3>1. b2[0][n].flag = "confirmed" /\ b2[1][n].flag = "not"
      BY <1>2, <2>1, <2>2, <2>3
    <3> QED BY <1>0, <1>4, <1>5, <1>8, <2>1, <2>2, <2>3, <3>1
  <2>4. CASE b[0][n].flag # "post"
    <3>1. b2 = b1
      BY <1>2, <2>2, <2>4
    <3>2. b4 = b3
      BY <1>4, <1>6, <1>8, <2>2, <3>1
    <3> QED BY <1>0, <1>1, <1>3, <1>5, <1>8, <2>1, <2>4, <3>1, <3>2
  <2> QED BY <2>3, <2>4
<1> QED BY <1>7, <1>8 DEF Parts

LEMMA ConfirmAllSettles ==
  ASSUME NEW b \in Cfgs, Sound(b), NoFirst(b) PROVE NothingPending(ConfirmAll(b))
<1>0. "ncpu" \in Cpus
  BY DEF Cpus
<1>1. PICK p \in Parts : /\ b[p]["ncpu"].flag = "confirmed"
                         /\ b[1 - p]["ncpu"].flag \in {"first", "post", "not"}
  BY <1>0 DEF Sound
<1>2. 1 - p \in Parts /\ \A q \in Parts : q = p \/ q = 1 - p
  BY DEF Parts
<1>3. b[1 - p]["ncpu"].flag \in {"post", "not"}
  BY <1>0, <1>1, <1>2 DEF NoFirst
<1> QED BY <1>1, <1>2, <1>3, ConfirmAllNcpu DEF NothingPending, PendingFlags

LEMMA LoadedFlags ==
  ASSUME NEW b \in Cfgs
  PROVE  /\ NoFirst(LoadedCfg(b))
         /\ \A p \in Parts, c \in Cpus :
              /\ b[p][c].flag = "confirmed" => LoadedCfg(b)[p][c].flag = "confirmed"
              /\ b[p][c].flag \in PendingFlags <=> LoadedCfg(b)[p][c].flag \in PendingFlags
<1>1. \A i \in Items : /\ LoadedItem(i).flag # "first"
                       /\ i.flag = "confirmed" => LoadedItem(i).flag = "confirmed"
                       /\ i.flag \in PendingFlags <=> LoadedItem(i).flag \in PendingFlags
  BY DEF LoadedItem, Items, PendingFlags
<1>2. \A p \in Parts, c \in Cpus : b[p][c] \in Items /\ LoadedCfg(b)[p][c] = LoadedItem(b[p][c])
  BY DEF Cfgs, LoadedCfg
<1> QED BY <1>1, <1>2 DEF NoFirst

LEMMA WriteKeepsBoot ==
  ASSUME DfuTypeOK, DfuTypeOK', DfuInv, Trusted, Trusted', BootInv,
         WriteBothSectors \/ dfu_init_partition_boot_cfg
  PROVE  BootInv'
<1>0. FlashTypeOK /\ FlashTypeOK' /\ PlaceTypeOK /\ 0 \in Parts /\ 1 \in Parts
  BY TypeParts DEF Parts
<1>a. Rewritten /\ ~cut /\ ~cut'
  BY DEF DfuInv, Trusted
<1>b. ram[0] \in [Cpus -> Items] /\ ram[1] \in [Cpus -> Items]
  BY <1>0 DEF FlashTypeOK, Cfgs
<1>c. UNCHANGED <<running, after>>
  BY DEF WriteBothSectors, dfu_init_partition_boot_cfg, EraseSector, ProgramSector, InitProgram
<1> USE DEF Writing, Making, Booting
<1>1. CASE EraseSector(0, "erase0", "prog0") \/ EraseSector(1, "erase1", "prog1")
  <2>1. pc \in {"erase0", "erase1"} /\ pc' \in {"prog0", "prog1"} /\ ram' = ram
    BY <1>1 DEF EraseSector
  <2> QED BY <1>c, <2>1 DEF BootInv
<1>2. CASE ProgramSector(0, "prog0", "erase1")
  <2>1. pc = "prog0" /\ pc' = "erase1" /\ ram' = ram
    BY <1>a, <1>2, FaultCuts DEF ProgramSector, Exposed, CfgPcs
  <2> QED BY <1>c, <2>1 DEF BootInv
<1>3. CASE ProgramSector(1, "prog1", after)
  <2>1. pc = "prog1" /\ ~Fault
    BY <1>a, <1>3, FaultCuts DEF ProgramSector, Exposed, CfgPcs
  <2>2. cfg' = [cfg EXCEPT ![1] = ram[1]] /\ pc' = after /\ ram' = ram
    BY <1>3, <2>1 DEF ProgramSector
  <2>3. cfg'[0] = ram[0] /\ cfg'[1] = ram[1]
    BY <1>0, <1>a, <1>b, <2>1, <2>2, OneSector DEF FlashTypeOK, Rewritten
  <2>4. cfg' = ram
    BY <1>0, <2>3, SameCfg DEF FlashTypeOK
  <2> QED BY <1>c, <2>1, <2>2, <2>4 DEF BootInv
<1>4. CASE pc = "init" /\ pc' = "init1"
  BY <1>c, <1>4 DEF BootInv
<1>5. CASE EraseSector(1, "init1", "initP0") \/ InitProgram(0, "initP0", "initP1")
  <2>1. pc \in {"init1", "initP0"} /\ pc' \in {"initP0", "initP1"}
    BY <1>5 DEF EraseSector, InitProgram
  <2> QED BY <1>c, <2>1 DEF BootInv
<1>6. CASE InitProgram(1, "initP1", after)
  <2>1. pc = "initP1" /\ ~Fault
    BY <1>a, <1>6, FaultCuts DEF InitProgram, Exposed, CfgPcs
  <2>2. cfg' = [cfg EXCEPT ![1] = ram[1]] /\ pc' = after
    BY <1>6, <2>1 DEF InitProgram
  <2>3. cfg'[0] = ram[0] /\ cfg'[1] = ram[1] /\ ram = FactoryCfg
    BY <1>0, <1>a, <1>b, <2>1, <2>2, OneSector DEF FlashTypeOK, Rewritten
  <2>4. cfg' = FactoryCfg
    BY <1>0, <2>3, SameCfg DEF FlashTypeOK
  <2>5. NothingPending(cfg')
    BY <2>4 DEF NothingPending, FactoryCfg, Item, PendingFlags, Cpus
  <2>6. after \in {"idle", "load", "load0", "image0"}
    BY <1>0 DEF PlaceTypeOK
  <2> QED BY <1>c, <2>1, <2>2, <2>4, <2>5, <2>6 DEF BootInv
<1> QED BY <1>1, <1>2, <1>3, <1>4, <1>5, <1>6
        DEF WriteBothSectors, dfu_init_partition_boot_cfg

LEMMA StartKeepsBoot ==
  ASSUME DfuTypeOK, DfuTypeOK', DfuInv, Trusted, Trusted', BootInv,
         PowerLoss \/ Loader \/ kmdw_dfu_cfg_sts_check \/ load_ncpu_fw
  PROVE  BootInv'
<1>0. FlashTypeOK /\ "ncpu" \in Cpus /\ "scpu" \in Cpus
  BY TypeParts DEF Cpus
<1>a. pc \notin CfgPcs => Sound(cfg) \/ Blank(cfg)
  BY DEF DfuInv, Trusted
<1> USE DEF Writing, Making, Booting
<1>1. CASE PowerLoss
  <2>1. pc' = "off" /\ running' = Torn
    BY <1>1 DEF PowerLoss
  <2> QED BY <2>1 DEF BootInv
<1>2. CASE Loader
  <2>1. pc = "off" /\ pc' = "check" /\ cfg' = LoadedCfg(cfg) /\ running' = running
    BY <1>2 DEF Loader, LoadedCfg, LoadedItem
  <2>2. NoFirst(cfg')
    BY <1>0, <2>1, LoadedFlags DEF FlashTypeOK
  <2> QED BY <2>1, <2>2 DEF BootInv
<1>3. CASE kmdw_dfu_cfg_sts_check
  <2>1. /\ pc = "check" /\ cfg' = cfg /\ running' = running /\ (Sound(cfg) \/ Blank(cfg))
        /\ running = Torn /\ NoFirst(cfg)
    BY <1>a, <1>3 DEF kmdw_dfu_cfg_sts_check, dfuFlash, CfgPcs, BootInv
  <2>2. ~HasFlag(cfg, "first")
    BY <2>1 DEF HasFlag, NoFirst
  <2>3. (cfg[0]["scpu"].flag = "erased" /\ cfg[1]["scpu"].flag = "erased") <=> Blank(cfg)
    BY <1>0, <2>1 DEF Sound, Blank, Erased, Item, Parts
  <2>4. CASE pc' = "load"
    <3>1. Blank(cfg) \/ ~HasFlag(cfg, "post")
      BY <1>3, <2>2, <2>3, <2>4 DEF kmdw_dfu_cfg_sts_check
    <3>2. NothingPending(cfg)
      BY <1>0, <2>1, <3>1 DEF NothingPending, PendingFlags, NoFirst, HasFlag, Blank, Erased, Item
    <3> QED BY <2>1, <2>4, <3>2 DEF BootInv
  <2>5. CASE pc' # "load"
    <3>1. pc' = "erase0" /\ after' = "load" /\ ram' = ConfirmAll(cfg) /\ ~Blank(cfg)
      BY <1>3, <2>3, <2>5 DEF kmdw_dfu_cfg_sts_check
    <3>2. NothingPending(ram')
      BY <1>0, <2>1, <3>1, ConfirmAllSettles DEF FlashTypeOK
    <3> QED BY <2>1, <3>1, <3>2 DEF BootInv
  <2> QED BY <2>4, <2>5
<1>4. CASE load_ncpu_fw
  <2>1. pc \in {"load", "load0"} /\ cfg' = cfg
    BY <1>4 DEF load_ncpu_fw, dfuFlash
  <2>2. CASE pc' = "init"
    <3>1. after' = "load0" /\ active_partition(cfg, "ncpu") = Unset /\ running' = running
      BY <1>4, <2>2 DEF load_ncpu_fw, NcpuStarts
    <3>2. Blank(cfg)
      BY <1>0, <1>a, <2>1, <3>1, ActiveSound DEF CfgPcs, FlashTypeOK, Unset, Parts
    <3> QED BY <2>1, <2>2, <3>1, <3>2 DEF BootInv
  <2>3. CASE pc' # "init"
    <3>1. pc' = "idle"
      BY <1>4, <2>3 DEF load_ncpu_fw, NcpuStarts
    <3> QED BY <3>1 DEF BootInv
  <2> QED BY <2>2, <2>3
<1> QED BY <1>1, <1>2, <1>3, <1>4

LEMMA RequestKeepsBoot ==
  ASSUME DfuTypeOK, DfuInv, Trusted, Trusted', NEW c \in Cpus,
         \/ BeginUpdate(c) \/ kmdw_dfu_switch_active_partition(c)
         \/ \E code \in {"auth_fail", "data_error"} : RejectUpdate(c, code)
  PROVE  BootInv'
<1>0. FlashTypeOK
  BY TypeParts
<1>1. pc = "idle" /\ cfg' = cfg /\ running' = running
  BY DEF BeginUpdate, kmdw_dfu_switch_active_partition, RejectUpdate, dfuFlash
<1>2. Sound(cfg) \/ Blank(cfg)
  BY <1>1 DEF DfuInv, Trusted, CfgPcs
<1> USE DEF Writing, Making, Booting
<1>3. CASE pc' \in {"idle", "image"}
  BY <1>3 DEF BootInv
<1>4. CASE BeginUpdate(c) /\ pc' \notin {"idle", "image"}
  <2>1. pc' = "init" /\ after' = "image0" /\ active_partition(cfg, c) = Unset
    BY <1>1, <1>4 DEF BeginUpdate, BeginImage
  <2>2. Blank(cfg)
    BY <1>0, <1>2, <2>1, ActiveSound DEF FlashTypeOK, Unset, Parts
  <2> QED BY <1>1, <2>1, <2>2 DEF BootInv
<1>5. CASE kmdw_dfu_switch_active_partition(c) /\ pc' # "idle"
  <2>1. /\ after' = "idle" /\ pc' = "init"
        /\ BothErased(cfg, "scpu") \/ SameItem(cfg, "ncpu")
    BY <1>1, <1>5 DEF kmdw_dfu_switch_active_partition, Trusted
  <2>2. Blank(cfg)
    BY <1>2, <2>1 DEF Sound, BothErased, SameItem, Parts, Cpus
  <2> QED BY <1>1, <2>1, <2>2 DEF BootInv
<1>6. \A code : RejectUpdate(c, code) => pc' = "idle"
  BY DEF RejectUpdate
<1> QED BY <1>3, <1>4, <1>5, <1>6

(* Nothing is trusted any more once something was not.                     *)
LEMMA TrustedBefore == DfuNext /\ Trusted' => Trusted
<1> SUFFICES ASSUME DfuNext, Trusted' PROVE Trusted
  OBVIOUS
<1>1. ~cut
  BY DEF Trusted, DfuNext, PowerLoss, DfuStep, Loader, kmdw_dfu_cfg_sts_check, load_ncpu_fw,
     WriteBothSectors, dfu_init_partition_boot_cfg, EraseSector, ProgramSector, InitProgram,
     BeginAfterInit, WriteImage, EraseUpdateCfg, ProgramUpdateCfg, Fault, DfuRequest,
     BeginUpdate, RejectUpdate, kmdw_dfu_switch_active_partition, dfuHistory
<1>2. ~switched
  BY DEF Trusted, DfuNext, PowerLoss, DfuStep, Loader, kmdw_dfu_cfg_sts_check, load_ncpu_fw,
     WriteBothSectors, dfu_init_partition_boot_cfg, EraseSector, ProgramSector, InitProgram,
     BeginAfterInit, WriteImage, EraseUpdateCfg, ProgramUpdateCfg, Fault, DfuRequest,
     BeginUpdate, RejectUpdate, kmdw_dfu_switch_active_partition, dfuHistory
<1> QED BY <1>1, <1>2 DEF Trusted

LEMMA BootInvKept ==
  DfuTypeOK /\ DfuTypeOK' /\ DfuInv /\ BootInv /\ [DfuNext]_dfuVars => BootInv'
<1> SUFFICES ASSUME DfuTypeOK, DfuTypeOK', DfuInv, BootInv, [DfuNext]_dfuVars, Trusted'
             PROVE  BootInv'
  BY DEF BootInv
<1>1. CASE DfuNext
  <2>1. Trusted
    BY <1>1, TrustedBefore
  <2>2. CASE BeginAfterInit \/ WriteImage \/ EraseUpdateCfg \/ ProgramUpdateCfg
    <3>1. pc' \in {"image", "cfg", "idle", "prog"}
      BY <2>2 DEF BeginAfterInit, BeginImage, WriteImage, EraseUpdateCfg, ProgramUpdateCfg, Return
    <3> QED BY <3>1 DEF BootInv, Booting, Writing, Making
  <2> QED BY <1>1, <2>1, <2>2, WriteKeepsBoot, StartKeepsBoot, RequestKeepsBoot
          DEF DfuNext, DfuStep, DfuRequest
<1>2. CASE UNCHANGED dfuVars
  BY <1>2 DEF dfuVars, dfuFlash, dfuControl, dfuHistory, BootInv, Booting, Trusted
<1> QED BY <1>1, <1>2
(* The update counts; nothing else does.                                   *)
LEMMA UpdateCount ==
  ASSUME done \in Counters
  PROVE  /\ Fault => done'.update = done.update
         /\ PowerLoss => done'.update = done.update
         /\ \A c \in Cpus : kmdw_dfu_switch_active_partition(c) => done'.update = done.update
         /\ \A c \in Cpus : BeginUpdate(c) => done'.update = done.update + 1
         /\ \A c \in Cpus : \A code : RejectUpdate(c, code) => done'.update = done.update + 1
BY DEF Counters, Fault, PowerLoss, kmdw_dfu_switch_active_partition, BeginUpdate, RejectUpdate

LEMMA NoPreparation ==
  ASSUME VersionInv, UNCHANGED image, done'.update = done.update,
         pc' \notin {"image0", "image", "cfg"} \cup Making,
         pc' \in Writing => after' # "image0"
  PROVE  VersionInv'
BY DEF VersionInv, Preparing

LEMMA WriteKeepsVersions ==
  ASSUME DfuTypeOK, VersionInv, WriteBothSectors \/ dfu_init_partition_boot_cfg
  PROVE  VersionInv'
<1>0. PlaceTypeOK /\ done \in Counters
  BY TypeParts DEF PastTypeOK
<1>1. UNCHANGED <<image, job, after>>
  BY DEF WriteBothSectors, dfu_init_partition_boot_cfg, EraseSector, ProgramSector, InitProgram
<1>2. done'.update = done.update
  BY <1>0, UpdateCount DEF WriteBothSectors, dfu_init_partition_boot_cfg, EraseSector,
     ProgramSector, InitProgram
<1>3. after \in {"idle", "load", "load0", "image0"}
  BY <1>0 DEF PlaceTypeOK
<1>4. CASE WriteBothSectors
  <2>1. pc \in Writing /\ pc' \in {"prog0", "erase1", "prog1", after}
    BY <1>4 DEF WriteBothSectors, EraseSector, ProgramSector, Writing
  <2>2. after # "image0"
    BY <2>1 DEF VersionInv
  <2> QED BY <1>1, <1>2, <1>3, <2>1, <2>2, NoPreparation DEF Making
<1>5. CASE dfu_init_partition_boot_cfg
  <2>1. pc \in Making /\ pc' \in {"init1", "initP0", "initP1", after}
    BY <1>5 DEF dfu_init_partition_boot_cfg, EraseSector, InitProgram, Making
  <2>2. CASE after = "image0"
    <3>1. Preparing
      BY <2>1, <2>2 DEF Preparing
    <3>2. pc' \notin Writing /\ pc' # "cfg"
      BY <2>1, <2>2 DEF Writing
    <3> QED BY <1>1, <1>2, <3>1, <3>2 DEF VersionInv
  <2>3. CASE after # "image0"
    <3>1. ~Preparing' /\ pc' # "cfg"
      BY <1>1, <1>3, <2>1, <2>3 DEF Preparing
    <3> QED BY <1>1, <1>2, <2>3, <3>1 DEF VersionInv
  <2> QED BY <2>2, <2>3
<1> QED BY <1>4, <1>5

LEMMA StartKeepsVersions ==
  ASSUME DfuTypeOK, VersionInv, PowerLoss \/ Loader \/ kmdw_dfu_cfg_sts_check \/ load_ncpu_fw
  PROVE  VersionInv'
<1>0. done \in Counters
  BY TypeParts DEF PastTypeOK
<1>1. image' = image /\ done'.update = done.update
  BY <1>0, UpdateCount DEF PowerLoss, Loader, kmdw_dfu_cfg_sts_check, load_ncpu_fw, dfuFlash
<1>2. CASE pc' # "init"
  <2>1. /\ pc' \in {"off", "check", "load", "erase0", "idle"}
        /\ pc' = "erase0" => after' = "load"
    BY <1>2 DEF PowerLoss, Loader, kmdw_dfu_cfg_sts_check, load_ncpu_fw, NcpuStarts
  <2> QED BY <1>1, <2>1, NoPreparation DEF Making, Writing
<1>3. CASE pc' = "init"
  <2>1. after' = "load0"
    BY <1>3 DEF PowerLoss, Loader, kmdw_dfu_cfg_sts_check, load_ncpu_fw, NcpuStarts
  <2> QED BY <1>1, <1>3, <2>1 DEF VersionInv, Preparing, Making, Writing
<1> QED BY <1>2, <1>3

LEMMA UpdateKeepsVersions ==
  ASSUME DfuTypeOK, VersionInv,
         BeginAfterInit \/ WriteImage \/ EraseUpdateCfg \/ ProgramUpdateCfg
  PROVE  VersionInv'
<1>0. FlashTypeOK /\ JobTypeOK /\ done \in Counters
  BY TypeParts DEF PastTypeOK
<1>a. /\ job.cpu \in Cpus /\ job.target \in Parts /\ job.ver \in Nat /\ done.update \in Nat
      /\ 1 - job.target \in Parts /\ 1 - job.target # job.target /\ 1 \in Parts
  BY <1>0 DEF JobTypeOK, Parts, Counters
<1>b. \A v, p, q \in Parts, c \in Cpus :
        [image EXCEPT ![job.cpu][q] = v][c][p] = IF c = job.cpu /\ p = q THEN v ELSE image[c][p]
  BY <1>0, <1>a DEF FlashTypeOK
<1>1. CASE BeginAfterInit
  <2>1. /\ pc = "image0" /\ pc' = "image" /\ UNCHANGED done
        /\ image' = [image EXCEPT ![job.cpu][1] = Torn] /\ job'.ver = job.ver
    BY <1>1 DEF BeginAfterInit, BeginImage
  <2>2. \A c \in Cpus, p \in Parts : image'[c][p] \in {Torn, image[c][p]}
    BY <1>0, <1>a, <2>1 DEF FlashTypeOK
  <2>3. job.ver = done.update + 1 /\ \A c \in Cpus, p \in Parts : image[c][p] <= done.update
    BY <2>1 DEF VersionInv, Preparing
  <2>4. \A c \in Cpus, p \in Parts : image'[c][p] <= done.update
    BY <1>a, <2>2, <2>3 DEF Torn
  <2>5. \A c \in Cpus, p \in Parts : image'[c][p] <= done.update + 1
    <3>1. \A c \in Cpus, p \in Parts : image[c][p] <= done.update + 1
      BY DEF VersionInv
    <3> QED BY <1>a, <2>2, <3>1 DEF Torn
  <2> QED BY <2>1, <2>3, <2>4, <2>5 DEF VersionInv, Writing
<1>2. CASE WriteImage
  <2>1. pc = "image" /\ UNCHANGED job /\ Preparing
    BY <1>2 DEF WriteImage, Preparing
  <2>2. /\ job.ver = done.update + 1
        /\ \A c \in Cpus, p \in Parts : image[c][p] <= done.update
        /\ \A c \in Cpus, p \in Parts : image[c][p] <= done.update + 1
    BY <2>1 DEF VersionInv
  <2>3. CASE /\ image' = [image EXCEPT ![job.cpu][job.target] = job.ver]
             /\ pc' = "cfg" /\ UNCHANGED done
    <3>1. /\ image'[job.cpu][job.target] = job.ver
          /\ image'[job.cpu][1 - job.target] = image[job.cpu][1 - job.target]
      BY <1>0, <1>a, <2>3 DEF FlashTypeOK
    <3>2. \A c \in Cpus, p \in Parts : image'[c][p] \in {job.ver, image[c][p]}
      BY <1>0, <1>a, <2>3 DEF FlashTypeOK
    <3>3. \A c \in Cpus, p \in Parts : image'[c][p] <= done.update + 1
      BY <1>a, <2>2, <3>2
    <3>4. ~Preparing' /\ pc' \notin Writing
      BY <2>3 DEF Preparing, Making, Writing
    <3> QED BY <1>a, <2>1, <2>2, <2>3, <3>1, <3>3, <3>4 DEF VersionInv
  <2>4. CASE Fault /\ pc' = "idle" /\ image' = image
    BY <1>0, <2>4, UpdateCount, NoPreparation DEF Making, Writing
  <2> QED BY <1>2, <2>3, <2>4 DEF WriteImage, Return
<1>3. CASE EraseUpdateCfg \/ ProgramUpdateCfg
  <2>1. image' = image /\ done'.update = done.update /\ pc' \in {"prog", "idle"}
    BY <1>0, <1>3, UpdateCount DEF EraseUpdateCfg, ProgramUpdateCfg, Return
  <2> QED BY <2>1, NoPreparation DEF Making, Writing
<1> QED BY <1>1, <1>2, <1>3

LEMMA RequestKeepsVersions ==
  ASSUME DfuTypeOK, DfuTypeOK', VersionInv, NEW c \in Cpus,
         \/ BeginUpdate(c) \/ kmdw_dfu_switch_active_partition(c)
         \/ \E code \in {"auth_fail", "data_error"} : RejectUpdate(c, code)
  PROVE  VersionInv'
<1>0. FlashTypeOK /\ JobTypeOK /\ done \in Counters /\ done' \in Counters
  BY TypeParts DEF PastTypeOK
<1>a. done.update \in Nat /\ \A d \in Cpus, p \in Parts : image[d][p] \in Nat
  BY <1>0 DEF Counters, FlashTypeOK
<1>b. \A d \in Cpus, p \in Parts : image[d][p] <= done.update + 1
  BY DEF VersionInv
<1>1. CASE BeginUpdate(c)
  <2>1. /\ done'.update = done.update + 1 /\ pc = "idle"
        /\ \/ pc' = "init" /\ after' = "image0" /\ job'.ver = done.update + 2 /\ image' = image
           \/ pc' = "idle" /\ image' = image
           \/ /\ pc' = "image" /\ job'.ver = done.update + 2 /\ active_partition(cfg, c) \in Parts
              /\ image' = [image EXCEPT ![c][1 - active_partition(cfg, c)] = Torn]
    BY <1>0, <1>1, UpdateCount DEF BeginUpdate, BeginImage
  <2>2. \A d \in Cpus, p \in Parts : image'[d][p] \in {Torn, image[d][p]}
    <3>1. \A q \in Parts : 1 - q \in Parts
      BY DEF Parts
    <3> QED BY <1>0, <2>1, <3>1 DEF FlashTypeOK
  <2>3. \A d \in Cpus, p \in Parts : image'[d][p] <= done'.update
    BY <1>a, <1>b, <2>1, <2>2 DEF Torn
  <2>4. \A d \in Cpus, p \in Parts : image'[d][p] <= done'.update + 1
    BY <1>a, <1>b, <2>1, <2>2 DEF Torn
  <2>5. pc' # "idle" => job'.ver = done'.update + 1
    BY <1>a, <2>1
  <2> QED BY <2>1, <2>3, <2>4, <2>5 DEF VersionInv, Preparing, Making, Writing
<1>2. CASE kmdw_dfu_switch_active_partition(c)
  <2>1. /\ done'.update = done.update /\ image' = image /\ pc = "idle"
        /\ pc' = "idle" \/ (pc' \in {"init", "erase0"} /\ after' = "idle")
    BY <1>0, <1>2, UpdateCount DEF kmdw_dfu_switch_active_partition, dfuFlash
  <2> QED BY <2>1 DEF VersionInv, Preparing, Making, Writing
<1>3. ASSUME NEW code, RejectUpdate(c, code) PROVE VersionInv'
  <2>1. done'.update = done.update + 1 /\ image' = image /\ pc' = "idle"
    BY <1>0, <1>3, UpdateCount DEF RejectUpdate, dfuFlash
  <2>2. \A d \in Cpus, p \in Parts : image'[d][p] <= done'.update + 1
    BY <1>a, <1>b, <2>1
  <2> QED BY <2>1, <2>2 DEF VersionInv, Preparing, Making, Writing
<1> QED BY <1>1, <1>2, <1>3

LEMMA VersionInvKept == DfuTypeOK /\ DfuTypeOK' /\ VersionInv /\ [DfuNext]_dfuVars => VersionInv'
<1> SUFFICES ASSUME DfuTypeOK, DfuTypeOK', VersionInv, [DfuNext]_dfuVars PROVE VersionInv'
  OBVIOUS
<1>1. CASE DfuNext
  BY <1>1, WriteKeepsVersions, StartKeepsVersions, UpdateKeepsVersions, RequestKeepsVersions
     DEF DfuNext, DfuStep, DfuRequest
<1>2. CASE UNCHANGED dfuVars
  BY <1>2 DEF dfuVars, dfuFlash, dfuControl, VersionInv, Preparing
<1> QED BY <1>1, <1>2

LEMMA Stutters ==
  ASSUME Trusted, Trusted', UNCHANGED <<CurrentImage, PendingImage, running>>
  PROVE  UNCHANGED Update!updateVars
BY DEF Update!updateVars, Trusted

(* Where the configuration that counts is.                                 *)
Rewrites == {"prog0", "erase1", "prog1", "init1", "initP0", "initP1"}

LEMMA EffectiveIs ==
  /\ pc \in Rewrites => Effective = ram
  /\ pc' \in Rewrites => Effective' = ram'
  /\ pc = "prog" => Effective = [cfg EXCEPT ![job.target] = ram[job.target]]
  /\ pc' = "prog" => Effective' = [cfg' EXCEPT ![job'.target] = ram'[job'.target]]
  /\ pc \notin Rewrites \cup {"prog"} => Effective = cfg
  /\ pc' \notin Rewrites \cup {"prog"} => Effective' = cfg'
BY DEF Effective, Rewrites

LEMMA SameFlash ==
  ASSUME Trusted, Trusted', UNCHANGED <<cfg, image, running>>,
         pc \notin Rewrites \cup {"prog"}, pc' \notin Rewrites \cup {"prog"}
  PROVE  UNCHANGED Update!updateVars
<1>1. Effective' = Effective
  BY EffectiveIs
<1> QED BY <1>1, ImagesIn, Stutters

LEMMA WriteRefines ==
  ASSUME DfuTypeOK, DfuTypeOK', DfuInv, Trusted, Trusted', ImageInv, BootInv,
         WriteBothSectors \/ dfu_init_partition_boot_cfg
  PROVE  Update!Confirm \/ UNCHANGED Update!updateVars
<1>0. FlashTypeOK /\ FlashTypeOK' /\ PlaceTypeOK /\ 0 \in Parts /\ 1 \in Parts /\ "ncpu" \in Cpus
  BY TypeParts DEF Parts, Cpus
<1>a. Rewritten /\ ~cut /\ ~cut' /\ ~switched
  BY DEF DfuInv, Trusted
<1>b. ram[0] \in [Cpus -> Items] /\ ram[1] \in [Cpus -> Items]
  BY <1>0 DEF FlashTypeOK, Cfgs
<1>c. UNCHANGED <<running, image>>
  BY DEF WriteBothSectors, dfu_init_partition_boot_cfg, EraseSector, ProgramSector, InitProgram
<1>d. ASSUME Effective' = Effective PROVE UNCHANGED Update!updateVars
  BY <1>c, <1>d, ImagesIn, Stutters
<1>1. CASE EraseSector(0, "erase0", "prog0")
  <2>1. pc = "erase0" /\ pc' = "prog0" /\ ram' = ram
    BY <1>1 DEF EraseSector
  <2>2. /\ Sound(cfg) /\ NoFirst(cfg) /\ ram = ConfirmAll(cfg) /\ running = Torn
        /\ Sound(ram) /\ Complete(cfg) /\ NothingPending(ram)
    BY <1>a, <2>1 DEF BootInv, Booting, Writing, Rewritten, ImageInv, CfgPcs, Trusted
  <2>3. Effective = cfg /\ Effective' = ram
    BY <2>1, EffectiveIs DEF Rewrites
  <2>4. PICK p \in Parts : /\ cfg[p]["ncpu"].flag = "confirmed"
                           /\ cfg[1 - p]["ncpu"].flag \in {"first", "post", "not"}
    BY <1>0, <2>2 DEF Sound
  <2>5. 1 - p \in Parts /\ 1 - (1 - p) = p
    BY DEF Parts
  <2>6. CASE cfg[1 - p]["ncpu"].flag = "post"
    <3>1. CurrentIn(cfg, image) = image["ncpu"][p] /\ PendingIn(cfg, image) = image["ncpu"][1 - p]
      BY <1>0, <2>2, <2>4, <2>6, SoundValues DEF FlashTypeOK, PendingFlags
    <3>2. ram[1 - p]["ncpu"].flag = "confirmed" /\ ram[p]["ncpu"].flag = "not"
      BY <1>0, <2>2, <2>4, <2>6, ConfirmAllNcpu DEF FlashTypeOK
    <3>3. ram[1 - (1 - p)]["ncpu"].flag \notin PendingFlags
      BY <2>5, <3>2 DEF PendingFlags
    <3>4. CurrentIn(ram, image) = image["ncpu"][1 - p] /\ PendingIn(ram, image) = Torn
      BY <1>0, <2>2, <2>5, <3>2, <3>3, SoundValues DEF FlashTypeOK
    <3>5. image["ncpu"][1 - p] # Torn
      BY <1>0, <2>2, <2>5, <2>6 DEF Complete, Live
    <3>6. /\ CurrentImage' = PendingImage /\ PendingImage' = 0 /\ PendingImage # 0
          /\ running = 0 /\ running' = running
      BY <1>c, <2>2, <2>3, <3>1, <3>4, <3>5, ImagesIn DEF Torn
    <3>7. (~cut' /\ ~switched') = (~cut /\ ~switched)
      BY DEF Trusted
    <3> QED BY <3>6, <3>7 DEF Update!Confirm
  <2>7. CASE cfg[1 - p]["ncpu"].flag # "post"
    <3>1. \A q \in Parts : ram[q]["ncpu"] = cfg[q]["ncpu"]
      BY <1>0, <2>2, <2>4, <2>7, ConfirmAllNcpu DEF FlashTypeOK
    <3>2. CurrentIn(ram, image) = CurrentIn(cfg, image) /\ PendingIn(ram, image) = PendingIn(cfg, image)
      BY <1>0, <2>2, <3>1, SameValues DEF FlashTypeOK
    <3> QED BY <1>c, <2>3, <3>2, ImagesIn, Stutters
  <2> QED BY <2>6, <2>7
<1>2. CASE EraseSector(1, "erase1", "prog1") \/ EraseSector(1, "init1", "initP0")
  <2>1. pc \in Rewrites /\ pc' \in Rewrites /\ ram' = ram
    BY <1>2 DEF EraseSector, Rewrites
  <2> QED BY <1>d, <2>1, EffectiveIs
<1>3. CASE ProgramSector(0, "prog0", "erase1") \/ InitProgram(0, "initP0", "initP1")
  <2>1. ~Fault \/ pc \in CfgPcs
    BY <1>3 DEF ProgramSector, InitProgram, CfgPcs
  <2>2. ~Fault
    BY <1>a, <2>1, FaultCuts DEF Exposed
  <2>3. pc \in Rewrites /\ pc' \in Rewrites /\ ram' = ram
    BY <1>3, <2>2 DEF ProgramSector, InitProgram, Rewrites
  <2> QED BY <1>d, <2>3, EffectiveIs
<1>4. CASE ProgramSector(1, "prog1", after) \/ InitProgram(1, "initP1", after)
  <2>1. pc \in {"prog1", "initP1"}
    BY <1>4 DEF ProgramSector, InitProgram
  <2>2. ~Fault
    BY <1>a, <2>1, FaultCuts DEF Exposed, CfgPcs
  <2>3. cfg' = [cfg EXCEPT ![1] = ram[1]] /\ pc' = after /\ ram' = ram
    BY <1>4, <2>2 DEF ProgramSector, InitProgram
  <2>4. cfg'[0] = ram[0] /\ cfg'[1] = ram[1]
    BY <1>0, <1>a, <1>b, <2>1, <2>3, OneSector DEF FlashTypeOK, Rewritten
  <2>5. cfg' = ram
    BY <1>0, <2>4, SameCfg DEF FlashTypeOK
  <2>6. after \in {"idle", "load", "load0", "image0"}
    BY <1>0 DEF PlaceTypeOK
  <2>7. Effective = ram /\ Effective' = cfg'
    BY <2>1, <2>3, <2>6, EffectiveIs DEF Rewrites
  <2> QED BY <1>d, <2>5, <2>7
<1>5. CASE pc = "init" /\ pc' = "init1" /\ ram' = FactoryCfg
  <2>1. Blank(cfg)
    BY <1>5 DEF BootInv
  <2>2. Effective = cfg /\ Effective' = FactoryCfg
    BY <1>5, EffectiveIs DEF Rewrites
  <2>3. CurrentIn(cfg, image) = image["ncpu"][0] /\ PendingIn(cfg, image) = Torn
    BY <2>1, BlankValues
  <2>4. CurrentIn(FactoryCfg, image) = image["ncpu"][0] /\ PendingIn(FactoryCfg, image) = Torn
    BY FactoryValues
  <2> QED BY <1>c, <2>2, <2>3, <2>4, ImagesIn, Stutters
<1> QED BY <1>1, <1>2, <1>3, <1>4, <1>5 DEF WriteBothSectors, dfu_init_partition_boot_cfg

LEMMA StartRefines ==
  ASSUME DfuTypeOK, DfuInv, Trusted, Trusted', BootInv,
         PowerLoss \/ Loader \/ kmdw_dfu_cfg_sts_check \/ load_ncpu_fw
  PROVE  Update!PowerDown \/ Update!Start \/ UNCHANGED Update!updateVars
<1>0. FlashTypeOK
  BY TypeParts
<1>a. (pc \notin CfgPcs => Sound(cfg) \/ Blank(cfg)) /\ ~cut /\ ~cut'
  BY DEF DfuInv, Trusted
<1>b. (~cut' /\ ~switched') = (~cut /\ ~switched)
  BY DEF Trusted
<1>1. CASE PowerLoss
  <2>1. ~Exposed /\ UNCHANGED <<cfg, image>> /\ pc' = "off" /\ running' = 0
    BY <1>a, <1>1 DEF PowerLoss, dfuFlash, Torn
  <2>2. pc \notin Rewrites \cup {"prog"}
    BY <2>1 DEF Exposed, CfgPcs, Rewrites
  <2>3. Effective' = Effective
    BY <2>1, <2>2, EffectiveIs DEF Rewrites
  <2>4. CurrentImage' = CurrentImage /\ PendingImage' = PendingImage
    BY <2>1, <2>3, ImagesIn
  <2> QED BY <1>b, <2>1, <2>4 DEF Update!PowerDown
<1>2. CASE Loader
  <2>1. pc = "off" /\ pc' = "check" /\ cfg' = LoadedCfg(cfg) /\ UNCHANGED <<image, running>>
    BY <1>2 DEF Loader, LoadedCfg, LoadedItem
  <2>2. Effective = cfg /\ Effective' = cfg'
    BY <2>1, EffectiveIs DEF Rewrites
  <2>3. CASE Sound(cfg)
    <3>1. Sound(cfg') /\ cfg \in Cfgs /\ cfg' \in Cfgs
      BY <1>0, <2>1, <2>3, LoadedSound DEF FlashTypeOK
    <3>2. \A p \in Parts :
            /\ cfg[p]["ncpu"].flag = "confirmed" => cfg'[p]["ncpu"].flag = "confirmed"
            /\ cfg[p]["ncpu"].flag \in PendingFlags <=> cfg'[p]["ncpu"].flag \in PendingFlags
      BY <2>1, <3>1, LoadedFlags DEF Cpus
    <3>3. /\ CurrentIn(cfg, image) = CurrentIn(cfg', image)
          /\ PendingIn(cfg, image) = PendingIn(cfg', image)
      BY <2>3, <3>1, <3>2, SameValues
    <3> QED BY <2>1, <2>2, <3>3, ImagesIn, Stutters
  <2>4. CASE Blank(cfg)
    <3>1. Blank(cfg')
      BY <1>0, <2>1, <2>4, LoadedSound DEF FlashTypeOK
    <3>2. CurrentIn(cfg, image) = image["ncpu"][0] /\ PendingIn(cfg, image) = Torn
      BY <2>4, BlankValues
    <3>3. CurrentIn(cfg', image) = image["ncpu"][0] /\ PendingIn(cfg', image) = Torn
      BY <3>1, BlankValues
    <3> QED BY <2>1, <2>2, <3>2, <3>3, ImagesIn, Stutters
  <2> QED BY <1>a, <2>1, <2>3, <2>4 DEF CfgPcs
<1>3. CASE kmdw_dfu_cfg_sts_check
  <2>1. UNCHANGED <<cfg, image, running>> /\ pc = "check" /\ pc' \in {"load", "erase0"}
    BY <1>3 DEF kmdw_dfu_cfg_sts_check, dfuFlash
  <2> QED BY <2>1, SameFlash DEF Rewrites
<1>4. CASE load_ncpu_fw
  <2>1. /\ pc \in {"load", "load0"} /\ UNCHANGED <<cfg, image>> /\ running = 0
        /\ pc' \in {"init", "idle"}
    BY <1>4 DEF load_ncpu_fw, NcpuStarts, dfuFlash, BootInv, Booting, Torn
  <2>2. Effective = cfg /\ Effective' = cfg
    BY <2>1, EffectiveIs DEF Rewrites
  <2>3. CASE pc' = "init"
    <3>1. UNCHANGED running
      BY <1>4, <2>3 DEF load_ncpu_fw, NcpuStarts
    <3> QED BY <2>1, <2>3, <3>1, SameFlash DEF Rewrites
  <2>4. CASE pc' = "idle"
    <3>1. \/ pc = "load" /\ running' = image["ncpu"][BootPartition(cfg, "ncpu")]
          \/ pc = "load0" /\ running' = image["ncpu"][0]
      BY <1>4, <2>4 DEF load_ncpu_fw, NcpuStarts
    <3>2. running' = CurrentIn(cfg, image) /\ PendingIn(cfg, image) = Torn
      <4>1. CASE pc = "load"
        <5>1. NothingPending(cfg)
          BY <4>1 DEF BootInv
        <5> QED BY <3>1, <4>1, <5>1 DEF CurrentIn, PendingIn, NothingPending
      <4>2. CASE pc = "load0"
        <5>1. cfg = FactoryCfg
          BY <4>2 DEF BootInv
        <5> QED BY <3>1, <4>2, <5>1, FactoryValues
      <4> QED BY <2>1, <4>1, <4>2
    <3>3. /\ running' = CurrentImage /\ PendingImage = 0
          /\ CurrentImage' = CurrentImage /\ PendingImage' = PendingImage
      BY <2>1, <2>2, <3>2, ImagesIn DEF Torn
    <3> QED BY <1>b, <2>1, <3>3 DEF Update!Start
  <2> QED BY <2>1, <2>3, <2>4
<1> QED BY <1>1, <1>2, <1>3, <1>4

(* Only the NCPU's images count.                                           *)
LEMMA OtherImage ==
  ASSUME NEW b, NEW im, NEW jm, im["ncpu"] = jm["ncpu"]
  PROVE  CurrentIn(b, im) = CurrentIn(b, jm) /\ PendingIn(b, im) = PendingIn(b, jm)
BY DEF CurrentIn, PendingIn

LEMMA UpdateRefines ==
  ASSUME DfuTypeOK, DfuTypeOK', DfuInv, DfuInv', Trusted, Trusted', VersionInv,
         BeginAfterInit \/ WriteImage \/ EraseUpdateCfg \/ ProgramUpdateCfg
  PROVE  Update!Install \/ UNCHANGED Update!updateVars
<1>0. FlashTypeOK /\ FlashTypeOK' /\ JobTypeOK /\ done \in Counters /\ "ncpu" \in Cpus
  BY TypeParts DEF PastTypeOK, Cpus
<1>a. Target /\ Target' /\ ~cut /\ ~cut'
  BY DEF DfuInv, Trusted
<1>b. (~cut' /\ ~switched') = (~cut /\ ~switched)
  BY DEF Trusted
<1>c. /\ job.cpu \in Cpus /\ job.target \in Parts /\ 1 - job.target \in Parts /\ job.ver \in Nat
      /\ 1 - job.target # job.target /\ 1 - (1 - job.target) = job.target
      /\ done.update \in Nat /\ \A c \in Cpus, p \in Parts : image[c][p] \in Nat
  BY <1>0 DEF JobTypeOK, Parts, Counters, FlashTypeOK
<1>d. running' = running
  BY DEF BeginAfterInit, BeginImage, WriteImage, EraseUpdateCfg, ProgramUpdateCfg
<1>1. CASE BeginAfterInit
  <2>1. /\ pc = "image0" /\ pc' = "image" /\ cfg' = cfg /\ cfg = FactoryCfg
        /\ image' = [image EXCEPT ![job.cpu][1] = Torn]
    BY <1>a, <1>1 DEF BeginAfterInit, BeginImage, Target
  <2>2. image'["ncpu"][0] = image["ncpu"][0]
    BY <1>0, <1>c, <2>1 DEF FlashTypeOK, Parts
  <2>3. Effective = FactoryCfg /\ Effective' = FactoryCfg
    BY <2>1, EffectiveIs DEF Rewrites
  <2>4. CurrentIn(FactoryCfg, image) = image["ncpu"][0] /\ PendingIn(FactoryCfg, image) = Torn
    BY FactoryValues
  <2>5. CurrentIn(FactoryCfg, image') = image'["ncpu"][0] /\ PendingIn(FactoryCfg, image') = Torn
    BY FactoryValues
  <2> QED BY <1>d, <2>2, <2>3, <2>4, <2>5, ImagesIn, Stutters
<1>2. CASE WriteImage
  <2>1. /\ pc = "image" /\ UNCHANGED cfg /\ Sound(cfg)
        /\ cfg[1 - job.target][job.cpu].flag = "confirmed"
    BY <1>a, <1>2 DEF WriteImage, Target, Updating
  <2>2. CASE Fault /\ pc' = "idle" /\ image' = image
    BY <1>d, <2>1, <2>2, SameFlash DEF Rewrites
  <2>3. CASE image' = [image EXCEPT ![job.cpu][job.target] = job.ver] /\ pc' = "cfg"
    <3>1. Effective = cfg /\ Effective' = cfg
      BY <2>1, <2>3, EffectiveIs DEF Rewrites
    <3>2. CASE job.cpu # "ncpu"
      <4>1. image'["ncpu"] = image["ncpu"]
        BY <1>0, <1>c, <2>3, <3>2 DEF FlashTypeOK
      <4> QED BY <1>d, <3>1, <4>1, OtherImage, ImagesIn, Stutters
    <3>3. CASE job.cpu = "ncpu"
      <4> DEFINE p == 1 - job.target
                 t == job.target
      <4>0. p \in Parts /\ t \in Parts /\ p # t /\ 1 - p = t
        BY <1>c
      <4>1. image'["ncpu"][t] = job.ver /\ image'["ncpu"][p] = image["ncpu"][p]
        BY <1>0, <1>c, <2>3, <3>3 DEF FlashTypeOK
      <4>2. cfg \in Cfgs /\ cfg[p]["ncpu"].flag = "confirmed"
        BY <1>0, <2>1, <3>3 DEF FlashTypeOK
      <4>3. /\ job.ver = done.update + 1
            /\ image["ncpu"][p] <= done.update /\ image["ncpu"][t] <= done.update
        BY <1>0, <1>c, <2>1 DEF VersionInv, Preparing
      <4> HIDE DEF p, t
      <4>4. CASE cfg[t]["ncpu"].flag \in PendingFlags
        <5>1. CurrentIn(cfg, image) = image["ncpu"][p] /\ PendingIn(cfg, image) = image["ncpu"][t]
          BY <2>1, <4>0, <4>2, <4>4, SoundValues
        <5>2. /\ CurrentIn(cfg, image') = image'["ncpu"][p]
              /\ PendingIn(cfg, image') = image'["ncpu"][t]
          BY <2>1, <4>0, <4>2, <4>4, SoundValues
        <5>3. /\ CurrentImage' = CurrentImage /\ PendingImage' = job.ver
              /\ CurrentImage = image["ncpu"][p] /\ PendingImage = image["ncpu"][t]
          BY <3>1, <4>1, <5>1, <5>2, ImagesIn
        <5>4. image["ncpu"][p] \in Nat /\ image["ncpu"][t] \in Nat
          BY <1>0, <1>c, <4>0
        <5>5. /\ PendingImage' \in Nat
              /\ PendingImage' > CurrentImage /\ PendingImage' > PendingImage
          BY <1>c, <4>3, <5>3, <5>4
        <5> QED BY <1>b, <1>d, <5>3, <5>5 DEF Update!Install
      <4>5. CASE cfg[t]["ncpu"].flag \notin PendingFlags
        <5>1. CurrentIn(cfg, image) = image["ncpu"][p] /\ PendingIn(cfg, image) = Torn
          BY <2>1, <4>0, <4>2, <4>5, SoundValues
        <5>2. CurrentIn(cfg, image') = image'["ncpu"][p] /\ PendingIn(cfg, image') = Torn
          BY <2>1, <4>0, <4>2, <4>5, SoundValues
        <5> QED BY <1>d, <3>1, <4>1, <5>1, <5>2, ImagesIn, Stutters
      <4> QED BY <4>4, <4>5
    <3> QED BY <3>2, <3>3
  <2> QED BY <1>2, <2>2, <2>3 DEF WriteImage, Return
<1>3. CASE EraseUpdateCfg
  <2> DEFINE p == 1 - job.target
             t == job.target
             e == [cfg' EXCEPT ![t] = ram'[t]]
  <2>0. p \in Parts /\ t \in Parts /\ p # t /\ 1 - p = t /\ \A q \in Parts : q = p \/ q = t
    BY <1>c DEF Parts
  <2>1. /\ pc = "cfg" /\ pc' = "prog" /\ UNCHANGED <<job, image>>
        /\ ram' = NextCfg(ram, job.cpu, t)
        /\ ram = cfg /\ Sound(cfg) /\ cfg[p][job.cpu].flag = "confirmed"
    BY <1>a, <1>3 DEF EraseUpdateCfg, Target, Updating
  <2>2. /\ Sound(ram')
        /\ \A c \in Cpus : cfg'[p][c].id = ram'[p][c].id /\ cfg'[p][c].flag = ram'[p][c].flag
    BY <1>a, <2>1 DEF Target, Updating
  <2>3. e \in Cfgs /\ e[t] = ram'[t] /\ e[p] = cfg'[p]
    <3>1. ram'[t] \in [Cpus -> Items] /\ cfg' \in Cfgs
      BY <1>0, <2>0 DEF FlashTypeOK, Cfgs
    <3> QED BY <2>0, <3>1, OneSector
  <2>4. Effective = cfg /\ Effective' = e
    BY <2>1, EffectiveIs DEF Rewrites
  <2>5. cfg \in Cfgs /\ ram \in Cfgs
    BY <1>0 DEF FlashTypeOK
  <2>6. /\ ram'[t][job.cpu].flag = "first"
        /\ \A q \in Parts, d \in Cpus : q # t \/ d # job.cpu => ram'[q][d].flag = cfg[q][d].flag
    <3> DEFINE n == NextCfg(cfg, job.cpu, t)
    <3>1. n[t][job.cpu].flag = "first"
      BY <1>c, <2>0, <2>5, NextFlags
    <3>2. \A q \in Parts, d \in Cpus :
            /\ n[q][d].id = cfg[q][d].id
            /\ q # t \/ d # job.cpu => n[q][d].flag = cfg[q][d].flag
      BY <1>c, <2>0, <2>5, NextFlags
    <3>3. ram' = n
      BY <2>1
    <3> HIDE DEF n
    <3> QED BY <3>1, <3>2, <3>3
  <2> HIDE DEF e, p, t
  <2>7. \A q \in Parts, c \in Cpus : e[q][c].id = ram'[q][c].id /\ e[q][c].flag = ram'[q][c].flag
    BY <2>0, <2>2, <2>3
  <2>8. Sound(e)
    BY <2>2, <2>7, SameIsSound
  <2>9. CASE job.cpu # "ncpu"
    <3>1. \A q \in Parts : e[q]["ncpu"].flag = cfg[q]["ncpu"].flag
      BY <1>0, <2>6, <2>7, <2>9
    <3>2. CurrentIn(cfg, image) = CurrentIn(e, image) /\ PendingIn(cfg, image) = PendingIn(e, image)
      BY <2>1, <2>3, <2>5, <2>8, <3>1, SameValues
    <3> QED BY <1>d, <2>1, <2>4, <3>2, ImagesIn, Stutters
  <2>10. CASE job.cpu = "ncpu"
    <3>1. /\ e[p]["ncpu"].flag = "confirmed" /\ e[t]["ncpu"].flag = "first"
          /\ cfg[p]["ncpu"].flag = "confirmed"
      BY <1>0, <2>0, <2>1, <2>6, <2>7, <2>10
    <3>2. CurrentIn(e, image) = image["ncpu"][p] /\ PendingIn(e, image) = image["ncpu"][t]
      BY <2>0, <2>3, <2>8, <3>1, SoundValues DEF PendingFlags
    <3>3. CurrentIn(cfg, image) = image["ncpu"][p]
      BY <2>0, <2>1, <2>5, <3>1, SoundValues
    <3>4. CASE cfg[t]["ncpu"].flag \in PendingFlags
      <4>1. PendingIn(cfg, image) = image["ncpu"][t]
        BY <2>0, <2>1, <2>5, <3>1, <3>4, SoundValues
      <4> QED BY <1>d, <2>1, <2>4, <3>2, <3>3, <4>1, ImagesIn, Stutters
    <3>5. CASE cfg[t]["ncpu"].flag \notin PendingFlags
      <4>1. PendingIn(cfg, image) = Torn
        BY <2>0, <2>1, <2>5, <3>1, <3>5, SoundValues
      <4>2. /\ CurrentImage' = CurrentImage /\ CurrentImage = image["ncpu"][p]
            /\ PendingImage' = image["ncpu"][t] /\ PendingImage = 0
        BY <2>1, <2>4, <3>2, <3>3, <4>1, ImagesIn DEF Torn
      <4>3. image["ncpu"][t] = done.update + 1 /\ image["ncpu"][p] <= done.update
        BY <2>1, <2>10 DEF VersionInv, p, t
      <4>4. image["ncpu"][p] \in Nat
        BY <1>0, <1>c, <2>0
      <4>5. /\ PendingImage' \in Nat
            /\ PendingImage' > CurrentImage /\ PendingImage' > PendingImage
        BY <1>c, <4>2, <4>3, <4>4
      <4> QED BY <1>b, <1>d, <4>2, <4>5 DEF Update!Install
    <3> QED BY <3>4, <3>5
  <2> QED BY <2>9, <2>10
<1>4. CASE ProgramUpdateCfg
  <2>1. pc = "prog" /\ pc' = "idle" /\ ~Fault /\ UNCHANGED image
    BY <1>a, <1>4, FaultCuts DEF ProgramUpdateCfg, Return, Exposed, CfgPcs
  <2>2. cfg' = [cfg EXCEPT ![job.target] = ram[job.target]]
    BY <1>4, <2>1 DEF ProgramUpdateCfg
  <2>3. Effective' = Effective
    BY <2>1, <2>2, EffectiveIs DEF Rewrites
  <2> QED BY <1>d, <2>1, <2>3, ImagesIn, Stutters
<1> QED BY <1>1, <1>2, <1>3, <1>4

LEMMA RequestRefines ==
  ASSUME DfuTypeOK, DfuInv, Trusted, Trusted', NEW c \in Cpus,
         \/ BeginUpdate(c) \/ kmdw_dfu_switch_active_partition(c)
         \/ \E code \in {"auth_fail", "data_error"} : RejectUpdate(c, code)
  PROVE  Update!Withdraw \/ UNCHANGED Update!updateVars
<1>0. FlashTypeOK /\ "ncpu" \in Cpus
  BY TypeParts DEF Cpus
<1>1. UNCHANGED <<cfg, running>> /\ pc = "idle" /\ pc' \in {"idle", "init", "erase0", "image"}
  BY DEF BeginUpdate, BeginImage, kmdw_dfu_switch_active_partition, RejectUpdate, dfuFlash
<1>2. pc \notin Rewrites \cup {"prog"} /\ pc' \notin Rewrites \cup {"prog"}
  BY <1>1 DEF Rewrites
<1>3. CASE UNCHANGED image
  BY <1>1, <1>2, <1>3, SameFlash
<1>4. CASE BeginUpdate(c) /\ ~UNCHANGED image
  <2> DEFINE p == active_partition(cfg, c)
             t == 1 - p
  <2>1. p \in Parts /\ image' = [image EXCEPT ![c][t] = Torn]
    BY <1>4 DEF BeginUpdate, BeginImage
  <2>2. t \in Parts /\ p # t /\ 1 - p = t
    BY <2>1 DEF Parts
  <2>3. cfg \in Cfgs /\ Sound(cfg)
    BY <1>0, <1>1, <2>1, ActiveBlank DEF FlashTypeOK, DfuInv, Trusted, CfgPcs, Unset, Parts
  <2>4. cfg[p][c].flag = "confirmed"
    BY <2>3, ActiveSound
  <2> HIDE DEF p, t
  <2>5. Effective = cfg /\ Effective' = cfg
    BY <1>1, <1>2, EffectiveIs
  <2>6. CASE c # "ncpu"
    <3>1. image'["ncpu"] = image["ncpu"]
      BY <1>0, <2>1, <2>2, <2>6 DEF FlashTypeOK
    <3> QED BY <1>1, <2>5, <3>1, OtherImage, ImagesIn, Stutters
  <2>7. CASE c = "ncpu"
    <3>1. image'["ncpu"][t] = Torn /\ image'["ncpu"][p] = image["ncpu"][p]
      BY <1>0, <2>1, <2>2, <2>7 DEF FlashTypeOK
    <3>2. cfg[p]["ncpu"].flag = "confirmed"
      BY <2>4, <2>7
    <3>3. CurrentIn(cfg, image) = image["ncpu"][p] /\ CurrentIn(cfg, image') = image'["ncpu"][p]
      BY <2>1, <2>3, <3>2, SoundValues
    <3>4. PendingIn(cfg, image') = Torn
      <4>1. CASE cfg[t]["ncpu"].flag \in PendingFlags
        <5>1. cfg[1 - p]["ncpu"].flag \in PendingFlags
          BY <2>2, <4>1
        <5>2. PendingIn(cfg, image') = image'["ncpu"][1 - p]
          BY <2>1, <2>3, <3>2, <5>1, SoundValues
        <5> QED BY <2>2, <3>1, <5>2
      <4>2. CASE cfg[t]["ncpu"].flag \notin PendingFlags
        BY <2>1, <2>2, <2>3, <3>2, <4>2, SoundValues
      <4> QED BY <4>1, <4>2
    <3>5. CurrentImage' = CurrentImage /\ PendingImage' = 0
      BY <2>5, <3>1, <3>3, <3>4, ImagesIn DEF Torn
    <3>6. (~cut' /\ ~switched') = (~cut /\ ~switched)
      BY DEF Trusted
    <3> QED BY <1>1, <3>5, <3>6 DEF Update!Withdraw
  <2> QED BY <2>6, <2>7
<1>5. (kmdw_dfu_switch_active_partition(c) \/ \E code : RejectUpdate(c, code)) => UNCHANGED image
  BY DEF kmdw_dfu_switch_active_partition, RejectUpdate, dfuFlash
<1> QED BY <1>3, <1>4, <1>5

LEMMA DfuRefines ==
  ASSUME DfuTypeOK, DfuTypeOK', DfuInv, DfuInv', ImageInv, BootInv, VersionInv,
         [DfuNext]_dfuVars
  PROVE  [Update!Next]_(Update!updateVars)
<1>1. CASE ~Trusted'
  <2>1. (~cut' /\ ~switched') = FALSE
    BY <1>1 DEF Trusted
  <2> QED BY <2>1 DEF Update!Next, Update!Anything
<1>2. CASE DfuNext /\ Trusted'
  <2>1. Trusted
    BY <1>2, TrustedBefore
  <2>2. \/ Update!Confirm \/ Update!PowerDown \/ Update!Start \/ Update!Install
        \/ Update!Withdraw \/ UNCHANGED Update!updateVars
    BY <1>2, <2>1, WriteRefines, StartRefines, UpdateRefines, RequestRefines
       DEF DfuNext, DfuStep, DfuRequest
  <2>3. ~cut /\ ~switched
    BY <2>1 DEF Trusted
  <2> QED BY <2>2, <2>3 DEF Update!Next
<1>3. CASE UNCHANGED dfuVars
  <2>1. /\ UNCHANGED <<cfg, image, ram, pc, job>>
        /\ running' = running /\ cut' = cut /\ switched' = switched
    BY <1>3 DEF dfuVars, dfuFlash, dfuControl, dfuHistory
  <2>2. Effective' = Effective
    BY <2>1 DEF Effective
  <2>3. CurrentImage' = CurrentImage /\ PendingImage' = PendingImage
    BY <2>1, <2>2, ImagesIn
  <2> QED BY <2>1, <2>3 DEF Update!updateVars
<1> QED BY <1>1, <1>2, <1>3

LEMMA DfuStartsPromise ==
  DfuInit => BootInv /\ VersionInv /\ Update!Init
<1> SUFFICES ASSUME DfuInit PROVE BootInv /\ VersionInv /\ Update!Init
  OBVIOUS
<1>1. /\ pc = "off" /\ running = Torn /\ ~cut /\ ~switched /\ done \in Counters
      /\ image = [c \in Cpus |-> [p \in Parts |-> IF p = 0 THEN 1 ELSE Torn]]
  BY DfuAssumption DEF DfuInit
<1>2. done.update \in Nat /\ \A c \in Cpus, p \in Parts : image[c][p] \in {1, Torn}
  BY <1>1 DEF Counters
<1>3. \A c \in Cpus, p \in Parts : image[c][p] <= done.update + 1
  BY <1>2 DEF Torn
<1>4. BootInv
  BY <1>1 DEF BootInv, Writing
<1>5. VersionInv
  BY <1>1, <1>3 DEF VersionInv, Preparing, Making, Writing
<1>6. image["ncpu"][0] = 1
  <2>1. "ncpu" \in Cpus /\ 0 \in Parts
    BY DEF Cpus, Parts
  <2> QED BY <1>1, <2>1
<1>7. Effective = cfg
  BY <1>1, EffectiveIs DEF Rewrites
<1>8. CurrentIn(cfg, image) = image["ncpu"][0] /\ PendingIn(cfg, image) = Torn
  <2>1. CASE cfg = FactoryCfg
    BY <2>1, FactoryValues
  <2>2. CASE cfg = [p \in Parts |-> Erased]
    <3>1. Blank(cfg)
      BY <2>2 DEF Blank
    <3> QED BY <3>1, BlankValues
  <2> QED BY <2>1, <2>2 DEF DfuInit
<1>9. CurrentImage = 1 /\ PendingImage = 0 /\ running = 0 /\ (~cut /\ ~switched) = TRUE
  BY <1>1, <1>6, <1>7, <1>8, ImagesIn DEF Torn
<1> QED BY <1>4, <1>5, <1>9 DEF Update!Init

(* For any number of updates, failures of the flash and reboots the        *)
(* sectors, partitions and flags of kmdw_dfu.c implement FirmwareUpdate    *)
(* for the NCPU: only a complete, newer image becomes the next one, it     *)
(* becomes the one in use during a boot, before the NCPU is started, and   *)
(* the NCPU is started with the one in use.                                *)
THEOREM DfuImplements == DfuSpec => UpdateKept
<1>1. DfuTypeOK /\ BootInv /\ VersionInv /\ DfuInv /\ (DfuTypeOK /\ DfuInv)' /\ [DfuNext]_dfuVars
        => (BootInv /\ VersionInv)'
  BY BootInvKept, VersionInvKept
<1>2. DfuTypeOK /\ DfuInv /\ ImageInv /\ BootInv /\ VersionInv /\ (DfuTypeOK /\ DfuInv)'
        /\ [DfuNext]_dfuVars => [Update!Next]_(Update!updateVars)
  BY DfuRefines
<1>3. DfuInit => BootInv /\ VersionInv /\ Update!Init
  BY DfuStartsPromise
<1> QED BY <1>1, <1>2, <1>3, DfuAlways, PTL DEF DfuSpec, UpdateKept

=============================================================================
