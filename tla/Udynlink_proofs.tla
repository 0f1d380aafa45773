--------------------------- MODULE Udynlink_proofs ---------------------------
(***************************************************************************)
(* Proofs about Udynlink: what the compiler delivers (Linkable) is linked  *)
(* right, in RAM that is as large as what is written to it and is freed    *)
(* again, for every set of programs and blocks, whatever is refused, fails *)
(* or is reset, as long as the programs are loaded as the loader means     *)
(* them to be (Env = {}).                                                  *)
(*                                                                         *)
(* The invariant follows one program i through the load: Source(i) in the  *)
(* buffer or the flash, HasRam(i) allocated, and from the copy on          *)
(* Linked(i, k), the whole of what memory holds of i after k relocations.  *)
(* The operators take the memory m and the module md, to be used of a      *)
(* state and of the next one.                                              *)
(***************************************************************************)
EXTENDS Udynlink, SequenceTheorems, TLAPS

Block(md) == md.p_ram[1]
DataAt(md, i) == RamSize(md, i) - i.bss - i.data
Slot(md, i, r) == IF r.at < i.lot THEN r.at ELSE DataAt(md, i) + (r.at - i.lot)
Target(md, i, r) == IF r.abs THEN Plus(Data(md, i), r.sym) ELSE SymValue(md, i, i.syms[r.sym])

\* Where the program that is loaded comes from.
Source(m, md, i) ==
    \/ md.mode = "COPY_ALL" /\ md.p_header = <<"buffer", 0>> /\ m["buffer"] = Stored(i)
    \/ md.mode = "XIP" /\ md.p_header = <<"flash", 0>> /\ m["flash"] = Stored(i)

\* The RAM is a block as large as was asked for.
HasRam(m, md, i) ==
    \/ RamSize(md, i) = 0 /\ md.p_ram = NULL
    \/ /\ RamSize(md, i) > 0
       /\ \E b \in Blocks : md.p_ram = <<b, 0>> /\ b \in DOMAIN m
       /\ DOMAIN m[Block(md)] = 0 .. (RamSize(md, i) - 1)

\* Header and code are where p_header points to.
InPlace(m, md, i) ==
    \/ /\ md.mode = "COPY_ALL" /\ md.p_header = <<Block(md), i.lot>>
       /\ \A o \in 0 .. (CodeOffset(i) + i.code - 1) : m[Block(md)][i.lot + o] = <<"image", i, o>>
    \/ md.mode = "XIP" /\ md.p_header = <<"flash", 0>> /\ m["flash"] = Stored(i)

\* The data is the program's but for the words of the first k relocations, and what
\* follows it is cleared.
DataCopied(m, md, i, k) ==
    \A o \in 0 .. (i.data - 1) :
        \/ m[Block(md)][DataAt(md, i) + o] = <<"image", i, CodeOffset(i) + i.code + o>>
        \/ /\ m[Block(md)][DataAt(md, i) + o][1] = "ptr"
           /\ \E n \in 1 .. k : i.rels[n].at = i.lot + o
BssCleared(m, md, i) ==
    \A o \in 0 .. (i.bss - 1) : m[Block(md)][DataAt(md, i) + i.data + o] = <<"bss", i, o>>

\* The first k relocations have been applied.
Relocated(m, md, i, k) ==
    \A n \in 1 .. k :
        LET r == i.rels[n]
        IN  /\ m[Block(md)][Slot(md, i, r)] = <<"ptr", Target(md, i, r)[1], Target(md, i, r)[2]>>
            /\ r.abs \/ Resolved(i, r.sym)

Linked(m, md, i, k) ==
    /\ i.sign /\ HasRam(m, md, i) /\ InPlace(m, md, i)
    /\ DataCopied(m, md, i, k) /\ BssCleared(m, md, i) /\ Relocated(m, md, i, k)

ModuleType ==
    [p_header : Regions \X Nat, p_ram : {NULL} \cup (Blocks \X {0}), mode : {"COPY_ALL", "XIP"}]

TypeInv ==
    /\ mod \in ModuleType
    /\ overrun = FALSE /\ plc_initialized \in {0, 1} /\ rel \in Nat
    /\ at \in {"idle", "setup", "copy", "relocate", "fail", "lookup"}
    /\ at # "idle" => plc_initialized = 0
    /\ \A n \in Required : ptrs[n][1] \in Regions

\* The heap holds the RAM of the module, and the flash a program that is signed.
MemInv(m, md) ==
    /\ \/ md.p_ram = NULL /\ DOMAIN m = {"buffer", "flash"}
       \/ \E b \in Blocks : md.p_ram = <<b, 0>> /\ DOMAIN m = {"buffer", "flash", b}
    /\ m["flash"] = Erased \/ \E i \in Images : i.sign /\ m["flash"] = Stored(i)

\* The function pointers are those of the program i.
Points(p, md, i) ==
    \A n \in Required : \E s \in Named(i, n) : p[n] = SymValue(md, i, i.syms[s])

SetupInv ==
    at = "setup" =>
        mod.p_ram = NULL /\ \E i \in Images : Source(mem, mod, i) /\ (mod.mode = "XIP" => i.sign)
CopyInv ==
    at = "copy" =>
        rel = 0 /\ \E i \in Images : i.sign /\ Source(mem, mod, i) /\ HasRam(mem, mod, i)
RelocateInv ==
    at = "relocate" =>
        \E i \in Images : rel <= Len(i.rels) /\ Linked(mem, mod, i, rel)
LookupInv ==
    at = "lookup" =>
        mod = Free \/ \E i \in Images : Linked(mem, mod, i, Len(i.rels))
IdleInv ==
    at = "idle" =>
        /\ plc_initialized = 0 => mod = Free
        /\ plc_initialized = 1 =>
              \E i \in Images : Linked(mem, mod, i, Len(i.rels)) /\ Points(ptrs, mod, i)

LoaderInv ==
    /\ TypeInv /\ MemInv(mem, mod)
    /\ SetupInv /\ CopyInv /\ RelocateInv /\ LookupInv /\ IdleInv

Deployment == Env = {} /\ \A i \in Images : Linkable(i)

-----------------------------------------------------------------------------
(* The layout of a program and the words of memory                         *)

\* The sizes of the parts of a program are natural numbers and add up.
LEMMA Layout ==
    ASSUME NEW i, Linkable(i)
    PROVE  /\ i.lot \in Nat /\ i.code \in Nat /\ i.data \in Nat /\ i.bss \in Nat
           /\ Len(i.rels) \in Nat /\ DOMAIN i.rels = 1 .. Len(i.rels)
           /\ CodeOffset(i) \in Nat /\ CodeOffset(i) > 0
           /\ Size(i) \in Nat /\ Size(i) = CodeOffset(i) + i.code + i.data
<1>1. i.lot \in Nat /\ i.code \in Nat /\ i.data \in Nat /\ i.bss \in Nat
  BY DEF Linkable
<1>2. Len(i.rels) \in Nat /\ DOMAIN i.rels = 1 .. Len(i.rels) /\ Len(i.syms) \in Nat
  BY LenProperties DEF Linkable
<1>3. \A p, q \in Nat : 1 + 2 * p + 1 + 2 * q \in Nat /\ 1 + 2 * p + 1 + 2 * q > 0
  OBVIOUS
<1>4. CodeOffset(i) \in Nat /\ CodeOffset(i) > 0
  BY <1>2, <1>3 DEF CodeOffset
<1> QED
  BY <1>1, <1>2, <1>4 DEF Size

Mode(md) == md.mode = "COPY_ALL" \/ md.mode = "XIP"

\* In RAM the data follows the LOT, or the copy of the header and the code, and ends
\* where the words to be cleared begin.
LEMMA RamLayout ==
    ASSUME NEW i, Linkable(i), NEW md, Mode(md)
    PROVE  /\ RamSize(md, i) \in Nat /\ DataAt(md, i) \in Nat
           /\ RamSize(md, i) = DataAt(md, i) + i.data + i.bss
           /\ md.mode = "COPY_ALL" => DataAt(md, i) = i.lot + CodeOffset(i) + i.code
           /\ md.mode = "XIP" => DataAt(md, i) = i.lot
<1>1. CASE md.mode = "COPY_ALL"
  <2>1. RamSize(md, i) = i.lot + i.data + i.bss + (CodeOffset(i) + i.code)
    BY <1>1 DEF RamSize
  <2>2. PICK lot, data, bss, code, offset \in Nat :
            lot = i.lot /\ data = i.data /\ bss = i.bss /\ code = i.code /\ offset = CodeOffset(i)
    BY Layout
  <2>3. RamSize(md, i) = lot + data + bss + (offset + code)
    BY <2>1, <2>2
  <2>4. DataAt(md, i) = RamSize(md, i) - bss - data
    BY <2>2 DEF DataAt
  <2>5. DataAt(md, i) = lot + offset + code
    BY <2>3, <2>4
  <2>6. RamSize(md, i) \in Nat /\ DataAt(md, i) \in Nat /\ RamSize(md, i) = DataAt(md, i) + data + bss
    BY <2>3, <2>5
  <2> QED
    BY <1>1, <2>2, <2>5, <2>6
<1>2. CASE md.mode = "XIP"
  BY <1>2, Layout DEF RamSize, DataAt
<1> QED
  BY <1>1, <1>2 DEF Mode

\* The parts of a program and of its RAM as numbers.
PartsAre(md, i, lot, code, data, bss, offset, start, size) ==
    /\ lot = i.lot /\ code = i.code /\ data = i.data /\ bss = i.bss
    /\ offset = CodeOffset(i) /\ start = DataAt(md, i) /\ size = RamSize(md, i)
    /\ Size(i) = offset + code + data /\ offset > 0
    /\ size = start + data + bss /\ start >= lot
    /\ md.mode = "COPY_ALL" => start = lot + offset + code
    /\ md.mode = "XIP" => start = lot

HasParts(md, i) ==
    \E lot, code, data, bss, offset, start, size \in Nat :
        PartsAre(md, i, lot, code, data, bss, offset, start, size)

LEMMA Parts ==
    ASSUME NEW i, Linkable(i), NEW md, Mode(md)
    PROVE  HasParts(md, i)
<1>1. PICK lot, code, data, bss, offset \in Nat :
          /\ lot = i.lot /\ code = i.code /\ data = i.data /\ bss = i.bss /\ offset = CodeOffset(i)
          /\ Size(i) = offset + code + data /\ offset > 0
  BY Layout
<1>2. PICK start, size \in Nat :
          /\ start = DataAt(md, i) /\ size = RamSize(md, i)
          /\ size = start + i.data + i.bss
          /\ md.mode = "COPY_ALL" => start = i.lot + CodeOffset(i) + i.code
          /\ md.mode = "XIP" => start = i.lot
  BY RamLayout
<1>3. size = start + data + bss
  BY <1>1, <1>2
<1>4. md.mode = "COPY_ALL" => start = lot + offset + code
  BY <1>1, <1>2
<1>5. md.mode = "XIP" => start = lot
  BY <1>1, <1>2
<1>6. start >= lot
  BY <1>1, <1>4, <1>5 DEF Mode
<1> QED
  <2>1. PartsAre(md, i, lot, code, data, bss, offset, start, size)
    BY <1>1, <1>2, <1>3, <1>4, <1>5, <1>6 DEF PartsAre
  <2> QED
    BY <2>1 DEF HasParts

\* The words of a stored program.
LEMMA StoredWords ==
    ASSUME NEW i, Linkable(i)
    PROVE  /\ 0 \in DOMAIN Stored(i)
           /\ \A o \in 0 .. (Size(i) - 1) : o \in DOMAIN Stored(i) /\ Stored(i)[o] = <<"image", i, o>>
<1>1. Size(i) \in Nat /\ Size(i) > 0
  BY Layout
<1>2. 0 \in 0 .. (Size(i) - 1)
  BY <1>1
<1> QED
  BY <1>2 DEF Stored

\* Written writes the words w and nothing else.
LEMMA WrittenWords ==
    ASSUME NEW m, NEW r \in DOMAIN m, NEW n \in Int, NEW w
    PROVE  /\ DOMAIN Written(m, r, n, w) = DOMAIN m
           /\ \A q \in DOMAIN m : q # r => Written(m, r, n, w)[q] = m[q]
           /\ DOMAIN Written(m, r, n, w)[r] = DOMAIN m[r]
           /\ \A o \in DOMAIN m[r] :
                 /\ o - n \in DOMAIN w => Written(m, r, n, w)[r][o] = w[o - n]
                 /\ o - n \notin DOMAIN w => Written(m, r, n, w)[r][o] = m[r][o]
  BY DEF Written

\* Copying or clearing no words gives none.
LEMMA NoWords ==
    /\ \A a, n : n = 0 => Copied(a, n) = <<>>
    /\ \A i, n : n = 0 => Cleared(i, n) = <<>>
<1>1. \A f, g : f \in [1 .. 0 -> {}] /\ g \in [1 .. 0 -> {}] => f = g
  OBVIOUS
<1>2. <<>> \in [1 .. 0 -> {}]
  OBVIOUS
<1>3. 0 .. (0 - 1) = 1 .. 0
  OBVIOUS
<1>4. ASSUME NEW a
      PROVE  Copied(a, 0) \in [1 .. 0 -> {}]
  BY <1>3 DEF Copied
<1>5. ASSUME NEW i
      PROVE  Cleared(i, 0) \in [1 .. 0 -> {}]
  BY <1>3 DEF Cleared
<1> QED
  BY <1>1, <1>4, <1>5 DEF Mode

\* A function of a word is not empty.
LEMMA SomeWords ==
    ASSUME NEW w, 0 \in DOMAIN w
    PROVE  w # <<>>
<1>1. DOMAIN <<>> = {}
  OBVIOUS
<1> QED
  BY <1>1

\* The block of the RAM is one of the heap's, and the data is where DataAt says.
LEMMA DataPlace ==
    ASSUME NEW i, Linkable(i), NEW m, NEW md, Mode(md),
           HasRam(m, md, i), RamSize(md, i) > 0,
           md.mode = "COPY_ALL" => md.p_header = <<Block(md), i.lot>>
    PROVE  /\ Block(md) \in Blocks /\ md.p_ram = <<Block(md), 0>> /\ Block(md) \in DOMAIN m
           /\ DOMAIN m[Block(md)] = 0 .. (RamSize(md, i) - 1)
           /\ Data(md, i) = <<Block(md), DataAt(md, i)>>
<1>1. RamSize(md, i) \in Nat /\ RamSize(md, i) # 0
  BY RamLayout
<1>2. PICK b \in Blocks : md.p_ram = <<b, 0>> /\ b \in DOMAIN m
  BY <1>1 DEF HasRam
<1>3. Block(md) = b
  BY <1>2 DEF Block
<1>4. DOMAIN m[Block(md)] = 0 .. (RamSize(md, i) - 1)
  BY <1>1 DEF HasRam
<1>5. CASE md.mode = "COPY_ALL"
  BY SMTT(30), <1>5, <1>2, <1>3, <1>4, Layout, RamLayout DEF Data, Plus
<1>6. CASE md.mode = "XIP"
  BY SMTT(30), <1>6, <1>2, <1>3, <1>4, Layout, RamLayout DEF Data, Plus
<1> QED
  BY <1>5, <1>6 DEF Mode

\* A relocation is of a word of the RAM, so a program without RAM has none.
LEMMA RelocationPlace ==
    ASSUME NEW i, Linkable(i), NEW md, Mode(md), NEW n \in 1 .. Len(i.rels)
    PROVE  /\ i.rels[n].abs \in BOOLEAN /\ i.rels[n].at \in Nat /\ i.rels[n].sym \in Nat
           /\ i.rels[n].at < i.lot + i.data
           /\ i.rels[n].abs => i.rels[n].at >= i.lot
           /\ ~i.rels[n].abs => i.rels[n].sym \in DOMAIN i.syms
           /\ RamSize(md, i) > 0
           /\ Slot(md, i, i.rels[n]) \in 0 .. (RamSize(md, i) - 1)
<1>1. n \in DOMAIN i.rels
  BY Layout
<1>2. i.rels[n] \in [abs : BOOLEAN, at : Nat, sym : Nat]
  BY ElementOfSeq DEF Linkable
<1>3. RelocationFits(i, i.rels[n])
  BY <1>1 DEF Linkable
<1>4. PICK r : r = i.rels[n]
  OBVIOUS
<1>5. r.abs \in BOOLEAN /\ r.at \in Nat /\ r.sym \in Nat
  BY <1>2, <1>4
<1>6. /\ r.at < i.lot + i.data
      /\ r.abs => r.at >= i.lot
      /\ ~r.abs => r.sym \in DOMAIN i.syms
  BY <1>3, <1>4 DEF RelocationFits
<1>7. PICK lot, code, data, bss, offset, start, size \in Nat :
          PartsAre(md, i, lot, code, data, bss, offset, start, size)
  BY Parts DEF HasParts
<1>8. PICK place \in Nat : place = r.at
  BY <1>5
<1>9. place < lot + data
  BY <1>6, <1>7, <1>8 DEF PartsAre, Mode
<1>10. Slot(md, i, r) = IF place < lot THEN place ELSE start + (place - lot)
  BY <1>7, <1>8 DEF Slot, PartsAre
<1>11. size > 0 /\ Slot(md, i, r) \in 0 .. (size - 1)
  <2> size = start + data + bss /\ start >= lot
    BY <1>7 DEF PartsAre
  <2>1. CASE place < lot
    BY <2>1, <1>7, <1>9, <1>10
  <2>2. CASE place >= lot
    BY <2>2, <1>7, <1>9, <1>10
  <2> QED
    BY <2>1, <2>2, <1>7
<1> QED
  BY <1>4, <1>5, <1>6, <1>7, <1>11 DEF PartsAre, Mode

\* Two relocations are not of the same word.
LEMMA SlotsApart ==
    ASSUME NEW i, Linkable(i), NEW md, Mode(md),
           NEW n \in 1 .. Len(i.rels), NEW q \in 1 .. Len(i.rels), n # q
    PROVE  Slot(md, i, i.rels[n]) # Slot(md, i, i.rels[q])
<1>1. i.rels[n].at # i.rels[q].at
  <2>1. n \in DOMAIN i.rels /\ q \in DOMAIN i.rels
    BY Layout
  <2> QED
    BY <2>1 DEF Linkable
<1>2. PICK lot, code, data, bss, offset, start, size \in Nat :
          PartsAre(md, i, lot, code, data, bss, offset, start, size)
  BY Parts DEF HasParts
<1>3. PICK one, two \in Nat : one = i.rels[n].at /\ two = i.rels[q].at
  BY RelocationPlace
<1>4. /\ Slot(md, i, i.rels[n]) = IF one < lot THEN one ELSE start + (one - lot)
      /\ Slot(md, i, i.rels[q]) = IF two < lot THEN two ELSE start + (two - lot)
  BY <1>2, <1>3 DEF Slot, PartsAre
<1>5. one # two
  BY <1>1, <1>3
<1>6. start >= lot
  BY <1>2 DEF PartsAre
<1>7. \A l, s, a, b \in Nat :
          s >= l /\ a # b => (IF a < l THEN a ELSE s + (a - l)) # (IF b < l THEN b ELSE s + (b - l))
  OBVIOUS
<1> QED
  BY SMTT(30), ZenonT(30), <1>2, <1>3, <1>4, <1>5, <1>6, <1>7

\* A program that needs no RAM is executed in the flash and has nothing to relocate.
LEMMA WithoutRam ==
    ASSUME NEW i, Linkable(i), NEW md, Mode(md), RamSize(md, i) = 0
    PROVE  md.mode = "XIP" /\ i.data = 0 /\ i.bss = 0 /\ Len(i.rels) = 0
<1>1. PICK lot, code, data, bss, offset, start, size \in Nat :
          PartsAre(md, i, lot, code, data, bss, offset, start, size)
  BY Parts DEF HasParts
<1>2. md.mode = "XIP" /\ i.data = 0 /\ i.bss = 0
  <2>1. size = 0 /\ size = start + data + bss /\ offset > 0
    BY <1>1 DEF PartsAre
  <2>2. start = 0 /\ data = 0 /\ bss = 0
    BY <1>1, <2>1
  <2>3. md.mode = "COPY_ALL" => start = lot + offset + code
    BY <1>1 DEF PartsAre
  <2>4. md.mode # "COPY_ALL"
    BY <1>1, <2>1, <2>2, <2>3
  <2> QED
    BY <1>1, <2>2, <2>4 DEF PartsAre, Mode
<1>3. Len(i.rels) = 0
  <2>1. ASSUME Len(i.rels) # 0
        PROVE  FALSE
    <3>1. 1 \in 1 .. Len(i.rels)
      BY <2>1, Layout
    <3>2. RamSize(md, i) > 0
      BY <3>1, RelocationPlace
    <3> QED
      BY <3>2
  <2> QED
    BY <2>1
<1> QED
  BY <1>2, <1>3

\* What else changes in memory does not touch a linked program.
LEMMA LinkedElsewhere ==
    ASSUME NEW i, Linkable(i), NEW m, NEW md, Mode(md),
           NEW k \in 0 .. Len(i.rels), Linked(m, md, i, k), NEW later,
           \A b \in Blocks : b \in DOMAIN m => b \in DOMAIN later /\ later[b] = m[b],
           md.mode = "XIP" => later["flash"] = m["flash"]
    PROVE  Linked(later, md, i, k)
<1>1. i.sign /\ HasRam(m, md, i) /\ InPlace(m, md, i)
  BY DEF Linked
<1>2. CASE RamSize(md, i) = 0
  <2>1. md.mode = "XIP" /\ i.data = 0 /\ i.bss = 0 /\ k = 0
    BY <1>2, WithoutRam, Layout
  <2>2. HasRam(later, md, i)
    BY <1>1, <1>2 DEF HasRam
  <2>3. InPlace(later, md, i)
    BY <1>1, <2>1 DEF InPlace
  <2>4. DataCopied(later, md, i, k) /\ BssCleared(later, md, i) /\ Relocated(later, md, i, k)
    BY <2>1 DEF DataCopied, BssCleared, Relocated
  <2> QED
    BY <1>1, <2>2, <2>3, <2>4 DEF Linked
<1>3. CASE RamSize(md, i) > 0
  <2>1. PICK b \in Blocks : md.p_ram = <<b, 0>> /\ b \in DOMAIN m
    BY <1>1, <1>3 DEF HasRam
  <2>2. Block(md) = b /\ later[b] = m[b] /\ b \in DOMAIN later
    BY <2>1 DEF Block
  <2>3. HasRam(later, md, i)
    BY <1>1, <1>3, <2>1, <2>2 DEF HasRam
  <2>4. InPlace(later, md, i)
    BY <1>1, <2>2 DEF InPlace
  <2>5. DataCopied(later, md, i, k)
    BY <2>2 DEF Linked, DataCopied
  <2>6. BssCleared(later, md, i)
    BY <2>2 DEF Linked, BssCleared
  <2>7. Relocated(later, md, i, k)
    BY <2>2 DEF Linked, Relocated
  <2> QED
    BY <1>1, <2>3, <2>4, <2>5, <2>6, <2>7 DEF Linked
<1> QED
  BY <1>2, <1>3, RamLayout

\* The address of a symbol the loader or a relocation asks for is in the module's
\* regions.
LEMMA HeaderPlace ==
    ASSUME NEW i, Linkable(i), NEW m, NEW md, Mode(md),
           HasRam(m, md, i), InPlace(m, md, i)
    PROVE  /\ \/ md.mode = "XIP" /\ md.p_header = <<"flash", 0>>
              \/ md.mode = "COPY_ALL" /\ md.p_header = <<Block(md), i.lot>> /\ Block(md) \in Blocks
                 /\ md.p_ram = <<Block(md), 0>> /\ RamSize(md, i) > 0
           /\ md.p_header # NULL /\ md.p_header[1] # "buffer"
<1>1. CASE md.mode = "XIP"
  BY <1>1 DEF InPlace, NULL
<1>2. CASE md.mode = "COPY_ALL"
  <2>1. RamSize(md, i) > 0
    BY <1>2, RamLayout, WithoutRam
  <2>2. md.p_header = <<Block(md), i.lot>>
    BY <1>2 DEF InPlace
  <2>3. Block(md) \in Blocks /\ md.p_ram = <<Block(md), 0>>
    BY <2>1, <2>2, DataPlace
  <2>4. Block(md) # "null" /\ Block(md) # "buffer"
    BY <2>3, UdynlinkConstants
  <2> QED
    BY <1>2, <2>1, <2>2, <2>3, <2>4 DEF NULL
<1> QED
  BY <1>1, <1>2 DEF Mode

-----------------------------------------------------------------------------
(* The first state, and the operations that find or leave nothing loaded   *)

LEMMA FreeModuleType == Free \in ModuleType /\ Free.p_ram = NULL /\ Free.p_header = NULL /\ NULL[1] \in Regions
<1>1. NULL \in Regions \X Nat /\ NULL[1] \in Regions
  BY DEF NULL, Regions
<1> QED
  BY <1>1 DEF Free, ModuleType

LEMMA ModeKnown ==
    ASSUME NEW md \in ModuleType
    PROVE  Mode(md)
  BY DEF ModuleType, Mode

\* With nothing loaded every part of the invariant but the flash is clear.
LEMMA Idle ==
    ASSUME mem \in [{"buffer", "flash"} -> {mem["buffer"], mem["flash"]}],
           mem["flash"] = Erased \/ \E i \in Images : i.sign /\ mem["flash"] = Stored(i),
           mod = Free, overrun = FALSE, plc_initialized = 0, rel \in Nat, at = "idle",
           \A n \in Required : ptrs[n][1] \in Regions
    PROVE  LoaderInv
<1>1. TypeInv
  BY FreeModuleType DEF TypeInv
<1>2. MemInv(mem, mod)
  BY FreeModuleType DEF MemInv
<1>3. SetupInv /\ CopyInv /\ RelocateInv /\ LookupInv /\ IdleInv
  BY DEF SetupInv, CopyInv, RelocateInv, LookupInv, IdleInv
<1> QED
  BY <1>1, <1>2, <1>3 DEF LoaderInv

LEMMA LoaderStarts == Init => LoaderInv
<1> SUFFICES ASSUME Init
             PROVE  LoaderInv
  OBVIOUS
<1>1. mem \in [{"buffer", "flash"} -> {mem["buffer"], mem["flash"]}] /\ mem["flash"] = Erased
  BY DEF Init
<1>2. \A n \in Required : ptrs[n][1] \in Regions
  BY FreeModuleType DEF Init
<1> QED
  BY <1>1, <1>2, Idle DEF Init

LEMMA ResetKeeps ==
    ASSUME LoaderInv, Reset
    PROVE  LoaderInv'
<1>1. /\ mem' \in [{"buffer", "flash"} -> {mem'["buffer"], mem'["flash"]}]
      /\ mem'["flash"] = mem["flash"]
  BY DEF Reset
<1>2. \A n \in Required : ptrs'[n][1] \in Regions
  BY FreeModuleType DEF Reset
<1>3. TypeInv'
  BY <1>2, FreeModuleType DEF Reset, TypeInv
<1>4. MemInv(mem', mod')
  BY <1>1, FreeModuleType DEF Reset, MemInv, LoaderInv
<1>5. SetupInv' /\ CopyInv' /\ RelocateInv' /\ LookupInv' /\ IdleInv'
  BY DEF Reset, SetupInv, CopyInv, RelocateInv, LookupInv, IdleInv
<1> QED
  BY <1>3, <1>4, <1>5 DEF LoaderInv

\* Nothing is loaded when a load begins.
LEMMA BeforeLoad ==
    ASSUME Deployment, LoaderInv, MayLoad
    PROVE  at = "idle" /\ plc_initialized = 0 /\ mod = Free /\ DOMAIN mem = {"buffer", "flash"}
<1>1. at = "idle" /\ plc_initialized = 0
  BY DEF MayLoad, Deployment
<1>2. mod = Free
  BY <1>1 DEF LoaderInv, IdleInv
<1>3. Free.p_ram = <<"null", 0>>
  BY FreeModuleType DEF NULL
<1>4. \A b \in Blocks : Free.p_ram # <<b, 0>>
  BY <1>3, UdynlinkConstants
<1> QED
  BY <1>1, <1>2, <1>4 DEF LoaderInv, MemInv

LEMMA LoadFileKeeps ==
    ASSUME Deployment, LoaderInv, NEW i \in Images, LoadFile(i)
    PROVE  LoaderInv'
<1>1. at = "idle" /\ plc_initialized = 0 /\ mod = Free /\ DOMAIN mem = {"buffer", "flash"}
  BY BeforeLoad DEF LoadFile
<1>2. DOMAIN mem' = {"buffer", "flash"} /\ mem'["flash"] = mem["flash"]
  BY <1>1 DEF LoadFile
<1>3. /\ overrun' = overrun /\ plc_initialized' = plc_initialized /\ ptrs' = ptrs /\ rel' = rel
  BY DEF LoadFile
<1>4. CASE at' = "setup" /\ mem'["buffer"] = Stored(i)
           /\ mod' = [mod EXCEPT !.p_header = <<"buffer", 0>>, !.mode = "COPY_ALL"]
  <2>1. mod' \in ModuleType /\ mod'.p_ram = NULL /\ mod'.p_header = <<"buffer", 0>> /\ mod'.mode = "COPY_ALL"
    <3>1. <<"buffer", 0>> \in Regions \X Nat
      BY DEF Regions
    <3> QED
      BY <3>1, <1>1, <1>4, FreeModuleType DEF ModuleType
  <2>2. TypeInv'
    BY <1>1, <1>3, <1>4, <2>1 DEF TypeInv, LoaderInv
  <2>3. MemInv(mem', mod')
    BY <1>2, <2>1 DEF MemInv, LoaderInv
  <2>4. Source(mem', mod', i)
    BY <1>4, <2>1 DEF Source
  <2>5. SetupInv'
    BY <2>1, <2>4 DEF SetupInv
  <2>6. CopyInv' /\ RelocateInv' /\ LookupInv' /\ IdleInv'
    BY <1>4 DEF CopyInv, RelocateInv, LookupInv, IdleInv
  <2> QED
    BY <2>2, <2>3, <2>5, <2>6 DEF LoaderInv
<1>5. CASE at' = at /\ mod' = mod
  <2>1. TypeInv'
    BY <1>3, <1>5 DEF TypeInv, LoaderInv
  <2>2. MemInv(mem', mod')
    BY <1>1, <1>2, <1>5, FreeModuleType DEF MemInv, LoaderInv
  <2>3. SetupInv' /\ CopyInv' /\ RelocateInv' /\ LookupInv' /\ IdleInv'
    BY <1>1, <1>3, <1>5 DEF SetupInv, CopyInv, RelocateInv, LookupInv, IdleInv
  <2> QED
    BY <2>1, <2>2, <2>3 DEF LoaderInv
<1> QED
  BY <1>1, <1>4, <1>5 DEF LoadFile

LEMMA LoadFlashKeeps ==
    ASSUME Deployment, LoaderInv, LoadFlash
    PROVE  LoaderInv'
<1>1. at = "idle" /\ plc_initialized = 0 /\ mod = Free /\ DOMAIN mem = {"buffer", "flash"}
  BY BeforeLoad DEF LoadFlash
<1>2. /\ mem' = mem /\ overrun' = overrun /\ plc_initialized' = plc_initialized
      /\ ptrs' = ptrs /\ rel' = rel /\ at' = "setup"
      /\ mod' = [mod EXCEPT !.p_header = <<"flash", 0>>, !.mode = "XIP"]
  BY DEF LoadFlash
<1>3. PICK i \in Images : i.sign /\ mem["flash"] = Stored(i)
  <2>1. Read(<<"flash", 0>>) # Junk
    BY DEF LoadFlash
  <2>2. mem["flash"] # Erased
    <3>1. ASSUME mem["flash"] = Erased
          PROVE  FALSE
      <4>1. "flash" \in DOMAIN mem /\ 0 \in DOMAIN mem["flash"] /\ mem["flash"][0] = Junk
        BY <1>1, <3>1 DEF Erased
      <4>2. Read(<<"flash", 0>>) = Junk
        BY <4>1 DEF Read
      <4> QED
        BY <2>1, <4>2
    <3> QED
      BY <3>1
  <2> QED
    BY <2>2 DEF LoaderInv, MemInv
<1>4. mod' \in ModuleType /\ mod'.p_ram = NULL /\ mod'.p_header = <<"flash", 0>> /\ mod'.mode = "XIP"
  <2>1. <<"flash", 0>> \in Regions \X Nat
    BY DEF Regions
  <2> QED
    BY <2>1, <1>1, <1>2, FreeModuleType DEF ModuleType
<1>5. TypeInv'
  BY <1>1, <1>2, <1>4 DEF TypeInv, LoaderInv
<1>6. MemInv(mem', mod')
  BY <1>1, <1>2, <1>4 DEF MemInv, LoaderInv
<1>7. SetupInv'
  <2>1. Source(mem', mod', i)
    BY <1>2, <1>3, <1>4 DEF Source
  <2> QED
    BY <1>3, <1>4, <2>1 DEF SetupInv
<1>8. CopyInv' /\ RelocateInv' /\ LookupInv' /\ IdleInv'
  BY <1>2 DEF CopyInv, RelocateInv, LookupInv, IdleInv
<1> QED
  BY <1>5, <1>6, <1>7, <1>8 DEF LoaderInv

\* The module tells which program it is of, before it is copied and after.
LEMMA SourceHeader ==
    ASSUME Deployment, MemInv(mem, mod), NEW i \in Images, Source(mem, mod, i)
    PROVE  Read(mod.p_header) = <<"image", i, 0>> /\ Header(mod) = i
<1>1. "buffer" \in DOMAIN mem /\ "flash" \in DOMAIN mem
  BY DEF MemInv
<1>2. 0 \in DOMAIN Stored(i) /\ Stored(i)[0] = <<"image", i, 0>>
  <2>1. Size(i) \in Nat /\ Size(i) > 0
    BY Layout DEF Deployment
  <2>2. 0 \in 0 .. (Size(i) - 1)
    BY <2>1
  <2> QED
    BY <2>2 DEF Stored
<1>3. Read(mod.p_header) = <<"image", i, 0>>
  BY <1>1, <1>2 DEF Source, Read
<1> QED
  BY <1>3 DEF Header

LEMMA SetupKeeps ==
    ASSUME Deployment, LoaderInv, Setup
    PROVE  LoaderInv'
<1>1. at = "setup" /\ rel' = 0 /\ overrun' = overrun /\ plc_initialized' = plc_initialized /\ ptrs' = ptrs
  BY DEF Setup
<1>2. mod.p_ram = NULL /\ mod \in ModuleType /\ Mode(mod)
  BY <1>1, ModeKnown DEF LoaderInv, SetupInv, TypeInv
<1>3. PICK i \in Images : Source(mem, mod, i)
  BY <1>1 DEF LoaderInv, SetupInv
<1>4. Header(mod) = i
  BY <1>3, SourceHeader DEF LoaderInv
<1>5. DOMAIN mem = {"buffer", "flash"}
  <2>1. \A b \in Blocks : NULL # <<b, 0>>
    BY UdynlinkConstants DEF NULL
  <2> QED
    BY <1>2, <2>1 DEF LoaderInv, MemInv
<1>6. CASE at' = "fail" /\ mem' = mem /\ mod' = mod
  <2>1. TypeInv'
    BY <1>1, <1>6 DEF LoaderInv, TypeInv
  <2>2. MemInv(mem', mod')
    BY <1>6 DEF LoaderInv
  <2>3. SetupInv' /\ CopyInv' /\ RelocateInv' /\ LookupInv' /\ IdleInv'
    BY <1>6 DEF SetupInv, CopyInv, RelocateInv, LookupInv, IdleInv
  <2> QED
    BY <2>1, <2>2, <2>3 DEF LoaderInv
<1>7. CASE i.sign /\ RamSize(mod, i) = 0 /\ at' = "copy" /\ mod' = [mod EXCEPT !.p_ram = NULL] /\ mem' = mem
  <2>1. mod' = mod
    BY <1>2, <1>7 DEF ModuleType
  <2>2. TypeInv'
    BY <1>1, <1>7, <2>1 DEF LoaderInv, TypeInv
  <2>3. MemInv(mem', mod')
    BY <1>7, <2>1 DEF LoaderInv
  <2>4. HasRam(mem', mod', i)
    BY <1>2, <1>7, <2>1 DEF HasRam
  <2>5. CopyInv'
    BY <1>1, <1>3, <1>7, <2>1, <2>4 DEF CopyInv
  <2>6. SetupInv' /\ RelocateInv' /\ LookupInv' /\ IdleInv'
    BY <1>7 DEF SetupInv, RelocateInv, LookupInv, IdleInv
  <2> QED
    BY <2>2, <2>3, <2>5, <2>6 DEF LoaderInv
<1>8. ASSUME i.sign, RamSize(mod, i) > 0, at' = "copy", NEW b \in Blocks \ DOMAIN mem,
             mod' = [mod EXCEPT !.p_ram = <<b, 0>>],
             mem' = [r \in DOMAIN mem \cup {b} |->
                        IF r = b THEN [o \in 0 .. (RamSize(mod, i) - 1) |-> Junk] ELSE mem[r]]
      PROVE  LoaderInv'
  <2>1. b # "buffer" /\ b # "flash"
    BY <1>5, <1>8
  <2>2. /\ mod' \in ModuleType /\ mod'.p_ram = <<b, 0>>
        /\ mod'.p_header = mod.p_header /\ mod'.mode = mod.mode
    BY <1>2, <1>8 DEF ModuleType
  <2>3. /\ DOMAIN mem' = {"buffer", "flash", b}
        /\ mem'["buffer"] = mem["buffer"] /\ mem'["flash"] = mem["flash"]
        /\ DOMAIN mem'[b] = 0 .. (RamSize(mod, i) - 1)
    BY <1>5, <1>8, <2>1
  <2>4. RamSize(mod', i) = RamSize(mod, i)
    BY <2>2 DEF RamSize
  <2>5. TypeInv'
    BY <1>1, <1>8, <2>2 DEF LoaderInv, TypeInv
  <2>6. MemInv(mem', mod')
    BY <2>2, <2>3 DEF LoaderInv, MemInv
  <2>7. Source(mem', mod', i)
    BY <1>3, <2>2, <2>3 DEF Source
  <2>8. HasRam(mem', mod', i)
    <3>1. Block(mod') = b
      BY <2>2 DEF Block
    <3> QED
      BY <1>8, <2>2, <2>3, <2>4, <3>1 DEF HasRam
  <2>9. CopyInv'
    BY <1>1, <1>8, <2>7, <2>8 DEF CopyInv
  <2>10. SetupInv' /\ RelocateInv' /\ LookupInv' /\ IdleInv'
    BY <1>8 DEF SetupInv, RelocateInv, LookupInv, IdleInv
  <2> QED
    BY <2>5, <2>6, <2>9, <2>10 DEF LoaderInv
<1> QED
  BY <1>4, <1>6, <1>7, <1>8 DEF Setup

-----------------------------------------------------------------------------
(* The operations on a loaded program                                      *)

\* What a linked program is found by.
LEMMA LinkedHeader ==
    ASSUME Deployment, LoaderInv, NEW i \in Images, NEW k, Linked(mem, mod, i, k)
    PROVE  /\ Read(mod.p_header) = <<"image", i, 0>> /\ Header(mod) = i /\ HasHeader(mod)
           /\ mod.p_header # NULL /\ mod.p_header[1] # "buffer"
<1>1. Mode(mod) /\ Linkable(i)
  BY ModeKnown DEF LoaderInv, TypeInv, Deployment
<1>2. HasRam(mem, mod, i) /\ InPlace(mem, mod, i)
  BY DEF Linked
<1>3. CASE mod.mode = "XIP" /\ mod.p_header = <<"flash", 0>> /\ mem["flash"] = Stored(i)
  <2>1. Source(mem, mod, i)
    BY <1>3 DEF Source
  <2> QED
    BY <1>1, <1>2, <2>1, SourceHeader, HeaderPlace DEF LoaderInv, HasHeader, Junk
<1>4. CASE mod.mode = "COPY_ALL"
  <2>1. /\ mod.p_header = <<Block(mod), i.lot>> /\ Block(mod) \in Blocks
        /\ mod.p_ram = <<Block(mod), 0>> /\ RamSize(mod, i) > 0
    BY <1>1, <1>2, <1>4, HeaderPlace
  <2>2. Block(mod) \in DOMAIN mem /\ DOMAIN mem[Block(mod)] = 0 .. (RamSize(mod, i) - 1)
    BY <1>1, <1>2, <2>1, DataPlace
  <2>3. PICK lot, code, data, bss, offset, start, size \in Nat :
            PartsAre(mod, i, lot, code, data, bss, offset, start, size)
    BY <1>1, Parts DEF HasParts
  <2>4. size = start + data + bss /\ start = lot + offset + code /\ offset > 0
    BY <1>4, <2>3 DEF PartsAre
  <2>5. lot \in 0 .. (size - 1) /\ 0 \in 0 .. (offset + code - 1) /\ lot + 0 = lot
    BY <2>3, <2>4
  <2>6. \A o \in 0 .. (offset + code - 1) : mem[Block(mod)][lot + o] = <<"image", i, o>>
    BY <1>2, <1>4, <2>3 DEF InPlace, PartsAre
  <2>7. mem[Block(mod)][lot] = <<"image", i, 0>>
    BY <2>5, <2>6
  <2>8. i.lot = lot /\ RamSize(mod, i) = size
    BY <2>3 DEF PartsAre
  <2>9. Read(mod.p_header) = <<"image", i, 0>>
    BY <2>1, <2>2, <2>5, <2>7, <2>8 DEF Read
  <2> QED
    BY <1>1, <1>2, <2>9, HeaderPlace DEF Header, HasHeader, Junk
<1> QED
  BY <1>1, <1>2, <1>3, <1>4 DEF InPlace, Mode

\* An address of a symbol inside the module is in its regions, never in the buffer.
LEMMA SymbolRegion ==
    ASSUME Deployment, LoaderInv, NEW i \in Images, NEW k, Linked(mem, mod, i, k),
           NEW sym, sym.type = "exported"
    PROVE  SymValue(mod, i, sym)[1] \in Regions /\ SymValue(mod, i, sym)[1] # "buffer"
<1>1. mod.p_header[1] \in Regions /\ mod.p_header[1] # "buffer"
  BY LinkedHeader DEF LoaderInv, TypeInv, ModuleType
<1>2. mod.p_ram[1] \in Regions /\ mod.p_ram[1] # "buffer"
  <2>1. \/ mod.p_ram = <<"null", 0>>
        \/ \E b \in Blocks : mod.p_ram = <<b, 0>>
    BY DEF LoaderInv, TypeInv, ModuleType, NULL
  <2> QED
    BY <2>1, UdynlinkConstants DEF Regions
<1>3. \A a, n : Plus(a, n)[1] = a[1]
  BY DEF Plus
<1>4. Code(mod, i)[1] = mod.p_header[1]
  BY <1>3 DEF Code
<1>5. Data(mod, i)[1] = mod.p_header[1] \/ Data(mod, i)[1] = mod.p_ram[1]
  BY <1>3 DEF Data
<1> QED
  BY <1>1, <1>2, <1>3, <1>4, <1>5 DEF SymValue

LEMMA LookupSymbolsKeeps ==
    ASSUME Deployment, LoaderInv, LookupSymbols
    PROVE  LoaderInv'
<1>1. /\ at = "lookup" /\ at' = "idle"
      /\ mem' = mem /\ mod' = mod /\ overrun' = overrun /\ rel' = rel
  BY DEF LookupSymbols
<1>2. plc_initialized = 0
  BY <1>1 DEF LoaderInv, TypeInv
<1>3. MemInv(mem', mod')
  BY <1>1 DEF LoaderInv
<1>4. SetupInv' /\ CopyInv' /\ RelocateInv' /\ LookupInv'
  BY <1>1 DEF SetupInv, CopyInv, RelocateInv, LookupInv
<1>5. ASSUME NEW i \in Images, Linked(mem, mod, i, Len(i.rels))
      PROVE  LoaderInv'
  <2>1. HasHeader(mod) /\ Header(mod) = i
    BY <1>5, LinkedHeader
  <2>2. Linkable(i) /\ Complete(i)
    BY DEF Deployment, Linkable
  <2>3. plc_initialized' = 1 /\ ptrs' = [n \in Required |-> Lookup(i, n)]
    BY <2>1, <2>2 DEF LookupSymbols
  <2>4. ASSUME NEW n \in Required
        PROVE  \E s \in Named(i, n) :
                  ptrs'[n] = SymValue(mod, i, i.syms[s]) /\ i.syms[s].type = "exported"
    <3>1. Named(i, n) # {}
      BY <2>2 DEF Complete
    <3>2. PICK s : s = CHOOSE q \in Named(i, n) : TRUE
      OBVIOUS
    <3>3. s \in Named(i, n)
      BY <3>1, <3>2
    <3>4. ptrs'[n] = SymValue(mod, i, i.syms[s])
      BY <2>3, <3>2 DEF Lookup
    <3>5. s \in DOMAIN i.syms /\ i.syms[s].name = n
      BY <3>3 DEF Named
    <3>6. i.syms[s].type = "exported"
      BY <2>2, <3>5 DEF Linkable
    <3> QED
      BY <3>3, <3>4, <3>6
  <2>5. \A n \in Required : ptrs'[n][1] \in Regions
    BY <1>5, <2>4, SymbolRegion
  <2>6. TypeInv'
    BY <1>1, <2>3, <2>5 DEF LoaderInv, TypeInv
  <2>7. Points(ptrs', mod', i)
    BY <1>1, <2>4 DEF Points
  <2>8. IdleInv'
    BY <1>1, <1>5, <2>3, <2>7 DEF IdleInv
  <2> QED
    BY <1>3, <1>4, <2>6, <2>8 DEF LoaderInv
<1>6. CASE mod = Free
  <2>1. ~HasHeader(mod)
    <3>1. "null" \notin DOMAIN mem
      <4>1. \/ DOMAIN mem = {"buffer", "flash"}
            \/ \E b \in Blocks : DOMAIN mem = {"buffer", "flash", b}
        BY DEF LoaderInv, MemInv
      <4>2. "null" \notin Blocks
        BY UdynlinkConstants
      <4>3. CASE DOMAIN mem = {"buffer", "flash"}
        BY <4>3
      <4>4. ASSUME NEW b \in Blocks, DOMAIN mem = {"buffer", "flash", b}
            PROVE  "null" \notin DOMAIN mem
        <5>1. b # "null"
          BY <4>2
        <5> QED
          BY <4>4, <5>1
      <4> QED
        BY <4>1, <4>3, <4>4
    <3>2. Read(mod.p_header) = Junk
      BY <1>6, <3>1, FreeModuleType DEF Read, NULL
    <3> QED
      BY <3>2 DEF HasHeader
  <2>2. ptrs' = ptrs /\ plc_initialized' = plc_initialized
    BY <2>1 DEF LookupSymbols
  <2>3. TypeInv'
    BY <1>1, <2>2 DEF LoaderInv, TypeInv
  <2>4. IdleInv'
    BY <1>1, <1>2, <1>6, <2>2 DEF IdleInv
  <2> QED
    BY <1>3, <1>4, <2>3, <2>4 DEF LoaderInv
<1> QED
  BY <1>1, <1>5, <1>6 DEF LoaderInv, LookupInv

\* Freeing a module leaves no block, and frees none that is not there.
LEMMA FreeModuleFrees ==
    ASSUME LoaderInv, FreeModule
    PROVE  /\ mod' = Free /\ overrun' = FALSE
           /\ DOMAIN mem' = {"buffer", "flash"} /\ mem'["flash"] = mem["flash"]
<1>1. mod' = Free /\ mem' = [r \in DOMAIN mem \ {mod.p_ram[1]} |-> mem[r]]
  BY DEF FreeModule
<1>2. CASE mod.p_ram = NULL /\ DOMAIN mem = {"buffer", "flash"}
  <2>1. DOMAIN mem \ {mod.p_ram[1]} = {"buffer", "flash"}
    BY <1>2 DEF NULL
  <2>2. overrun' = FALSE
    BY <1>2 DEF FreeModule, LoaderInv, TypeInv
  <2> QED
    BY <1>1, <2>1, <2>2
<1>3. ASSUME NEW b \in Blocks, mod.p_ram = <<b, 0>>, DOMAIN mem = {"buffer", "flash", b}
      PROVE  overrun' = FALSE /\ DOMAIN mem' = {"buffer", "flash"} /\ mem'["flash"] = mem["flash"]
  <2>1. b # "buffer" /\ b # "flash"
    BY UdynlinkConstants
  <2>2. mod.p_ram[1] = b
    BY <1>3
  <2>3. DOMAIN mem \ {mod.p_ram[1]} = {"buffer", "flash"}
    BY <1>3, <2>1, <2>2
  <2>4. overrun' = FALSE
    BY <1>3, <2>2 DEF FreeModule, LoaderInv, TypeInv
  <2> QED
    BY <1>1, <2>3, <2>4
<1> QED
  BY <1>1, <1>2, <1>3 DEF LoaderInv, MemInv

LEMMA LoadFailsKeeps ==
    ASSUME LoaderInv, LoadFails
    PROVE  LoaderInv'
<1>1. /\ at = "fail" /\ at' = "lookup"
      /\ plc_initialized' = plc_initialized /\ ptrs' = ptrs /\ rel' = rel /\ FreeModule
  BY DEF LoadFails
<1>2. /\ mod' = Free /\ overrun' = FALSE
      /\ DOMAIN mem' = {"buffer", "flash"} /\ mem'["flash"] = mem["flash"]
  BY <1>1, FreeModuleFrees
<1>3. TypeInv'
  BY <1>1, <1>2, FreeModuleType DEF LoaderInv, TypeInv
<1>4. MemInv(mem', mod')
  BY <1>2, FreeModuleType DEF LoaderInv, MemInv
<1>5. SetupInv' /\ CopyInv' /\ RelocateInv' /\ LookupInv' /\ IdleInv'
  BY <1>1, <1>2 DEF SetupInv, CopyInv, RelocateInv, LookupInv, IdleInv
<1> QED
  BY <1>3, <1>4, <1>5 DEF LoaderInv

\* A module that is loaded has a header.
LEMMA LoadedHeader ==
    ASSUME Deployment, LoaderInv, at = "idle", plc_initialized = 1
    PROVE  mod.p_header # NULL
  BY LinkedHeader DEF LoaderInv, IdleInv

LEMMA UnloadKeeps ==
    ASSUME Deployment, LoaderInv, Unload
    PROVE  LoaderInv'
<1>1. /\ at = "idle" /\ plc_initialized = 1 /\ plc_initialized' = 0
      /\ ptrs' = ptrs /\ rel' = rel /\ at' = at
  BY DEF Unload
<1>2. FreeModule
  BY <1>1, LoadedHeader DEF Unload
<1>3. /\ mod' = Free /\ overrun' = FALSE
      /\ DOMAIN mem' = {"buffer", "flash"} /\ mem'["flash"] = mem["flash"]
  BY <1>2, FreeModuleFrees
<1>4. TypeInv'
  BY <1>1, <1>3, FreeModuleType DEF LoaderInv, TypeInv
<1>5. MemInv(mem', mod')
  BY <1>3, FreeModuleType DEF LoaderInv, MemInv
<1>6. SetupInv' /\ CopyInv' /\ RelocateInv' /\ LookupInv' /\ IdleInv'
  BY <1>1, <1>3 DEF SetupInv, CopyInv, RelocateInv, LookupInv, IdleInv
<1> QED
  BY <1>4, <1>5, <1>6 DEF LoaderInv

LEMMA EraseKeeps ==
    ASSUME Deployment, LoaderInv, Erase
    PROVE  LoaderInv'
<1>1. /\ at = "idle" /\ plc_initialized' = 0
      /\ overrun' = overrun /\ ptrs' = ptrs /\ rel' = rel /\ at' = at
  BY DEF Erase
<1>2. plc_initialized = 0 \/ plc_initialized = 1
  BY DEF LoaderInv, TypeInv
<1>3. mod' = Free /\ DOMAIN mem' = {"buffer", "flash"} /\ mem'["flash"] \in {Erased, mem["flash"]}
  <2>1. CASE plc_initialized = 1
    <3>1. mod.p_header # NULL
      BY <1>1, <2>1, LoadedHeader
    <3>2. DOMAIN mem \ {mod.p_ram[1]} = {"buffer", "flash"}
      <4>1. CASE mod.p_ram = NULL /\ DOMAIN mem = {"buffer", "flash"}
        BY <4>1 DEF NULL
      <4>2. ASSUME NEW b \in Blocks, mod.p_ram = <<b, 0>>, DOMAIN mem = {"buffer", "flash", b}
            PROVE  DOMAIN mem \ {mod.p_ram[1]} = {"buffer", "flash"}
        <5>1. mod.p_ram[1] = b /\ b # "buffer" /\ b # "flash"
          BY <4>2, UdynlinkConstants
        <5> QED
          BY <4>2, <5>1
      <4> QED
        BY <4>1, <4>2 DEF LoaderInv, MemInv
    <3>3. mod' = Free
      BY <2>1, <3>1 DEF Erase
    <3>4. \E flash \in {Erased, mem["flash"]} :
             mem' = [r \in DOMAIN mem \ {mod.p_ram[1]} |-> IF r = "flash" THEN flash ELSE mem[r]]
      BY <2>1, <3>1 DEF Erase
    <3> QED
      BY <3>2, <3>3, <3>4
  <2>2. CASE plc_initialized = 0
    <3>1. mod = Free
      BY <1>1, <2>2 DEF LoaderInv, IdleInv
    <3>2. DOMAIN mem = {"buffer", "flash"}
      <4>1. \A b \in Blocks : Free.p_ram # <<b, 0>>
        BY FreeModuleType, UdynlinkConstants DEF NULL
      <4> QED
        BY <3>1, <4>1 DEF LoaderInv, MemInv
    <3>3. mod' = mod
      BY <2>2 DEF Erase
    <3>4. \E flash \in {Erased, mem["flash"]} :
             mem' = [r \in DOMAIN mem \ {} |-> IF r = "flash" THEN flash ELSE mem[r]]
      BY <2>2 DEF Erase
    <3> QED
      BY <3>1, <3>2, <3>3, <3>4
  <2> QED
    BY <1>2, <2>1, <2>2
<1>4. TypeInv'
  BY <1>1, <1>3, FreeModuleType DEF LoaderInv, TypeInv
<1>5. MemInv(mem', mod')
  <2>1. mem["flash"] = Erased \/ \E i \in Images : i.sign /\ mem["flash"] = Stored(i)
    BY DEF LoaderInv, MemInv
  <2> QED
    BY <1>3, <2>1, FreeModuleType DEF MemInv
<1>6. SetupInv' /\ CopyInv' /\ RelocateInv' /\ LookupInv' /\ IdleInv'
  BY <1>1, <1>3 DEF SetupInv, CopyInv, RelocateInv, LookupInv, IdleInv
<1> QED
  BY <1>4, <1>5, <1>6 DEF LoaderInv

\* The flash is not written under a program that is executed in it.
LEMMA FlashKeeps ==
    ASSUME Deployment, LoaderInv, NEW j \in Images, Flash(j)
    PROVE  LoaderInv'
<1>1. /\ at = "idle" /\ j.sign /\ mod.p_header[1] # "flash"
      /\ mod' = mod /\ overrun' = overrun /\ plc_initialized' = plc_initialized
      /\ ptrs' = ptrs /\ rel' = rel /\ at' = at
  BY DEF Flash, Deployment
<1>2. PICK flash \in {Erased, Stored(j)} : mem' = [mem EXCEPT !["flash"] = flash]
  BY DEF Flash, Deployment
<1>3. "flash" \in DOMAIN mem
  BY DEF LoaderInv, MemInv
<1>4. DOMAIN mem' = DOMAIN mem /\ mem'["flash"] = flash
  BY <1>2, <1>3
<1>5. \A b \in Blocks : b \in DOMAIN mem => b \in DOMAIN mem' /\ mem'[b] = mem[b]
  BY <1>2, <1>3, UdynlinkConstants
<1>6. TypeInv'
  BY <1>1 DEF LoaderInv, TypeInv
<1>7. MemInv(mem', mod')
  BY <1>1, <1>2, <1>4 DEF LoaderInv, MemInv
<1>8. SetupInv' /\ CopyInv' /\ RelocateInv' /\ LookupInv'
  BY <1>1 DEF SetupInv, CopyInv, RelocateInv, LookupInv
<1>9. IdleInv'
  <2>1. CASE plc_initialized = 0
    BY <1>1, <2>1 DEF LoaderInv, IdleInv
  <2>2. CASE plc_initialized = 1
    <3>1. PICK i \in Images : Linked(mem, mod, i, Len(i.rels)) /\ Points(ptrs, mod, i)
      BY <1>1, <2>2 DEF LoaderInv, IdleInv
    <3>2. Mode(mod) /\ Linkable(i) /\ Len(i.rels) \in Nat
      BY ModeKnown, Layout DEF LoaderInv, TypeInv, Deployment
    <3>3. mod.mode # "XIP"
      BY <1>1, <3>1, <3>2, HeaderPlace DEF Linked
    <3>4. Linked(mem', mod, i, Len(i.rels))
      BY <1>5, <3>1, <3>2, <3>3, LinkedElsewhere
    <3> QED
      BY <1>1, <2>2, <3>1, <3>4 DEF IdleInv
  <2> QED
    BY <2>1, <2>2 DEF LoaderInv, TypeInv
<1> QED
  BY <1>6, <1>7, <1>8, <1>9 DEF LoaderInv

-----------------------------------------------------------------------------
(* The copy of the program into RAM                                        *)

\* What the copy writes, and that it fits: the words of the program behind the LOT (its
\* data only, if it is executed in the flash) and then as many cleared ones as are left.
LEMMA CopyWrites ==
    ASSUME Deployment, LoaderInv, Copy,
           NEW i \in Images, i.sign, Source(mem, mod, i), HasRam(mem, mod, i), RamSize(mod, i) > 0
    PROVE  /\ mod' = Moved(i) /\ overrun' = FALSE
           /\ Block(mod) \in Blocks /\ mod.p_ram = <<Block(mod), 0>>
           /\ DOMAIN mem' = DOMAIN mem /\ mem'["flash"] = mem["flash"]
           /\ DOMAIN mem'[Block(mod)] = 0 .. (RamSize(mod, i) - 1)
           /\ \A o \in 0 .. (i.bss - 1) :
                 mem'[Block(mod)][DataAt(mod, i) + i.data + o] = <<"bss", i, o>>
           /\ mod.mode = "COPY_ALL" => \A o \in 0 .. (Size(i) - 1) :
                 mem'[Block(mod)][i.lot + o] = <<"image", i, o>>
           /\ mod.mode = "XIP" => \A o \in 0 .. (i.data - 1) :
                 mem'[Block(mod)][i.lot + o] = <<"image", i, CodeOffset(i) + i.code + o>>
<1>1. Mode(mod) /\ mod \in ModuleType /\ Linkable(i)
  BY ModeKnown DEF LoaderInv, TypeInv, Deployment
<1>2. PICK lot, code, data, bss, offset, start, size \in Nat :
          PartsAre(mod, i, lot, code, data, bss, offset, start, size)
  BY <1>1, Parts DEF HasParts
<1>3. /\ lot = i.lot /\ code = i.code /\ data = i.data /\ bss = i.bss /\ offset = CodeOffset(i)
      /\ start = DataAt(mod, i) /\ size = RamSize(mod, i) /\ Size(i) = offset + code + data
  BY <1>2 DEF PartsAre
<1>4. /\ size = start + data + bss /\ start >= lot /\ offset > 0
      /\ mod.mode = "COPY_ALL" => start = lot + offset + code
      /\ mod.mode = "XIP" => start = lot
  BY <1>2 DEF PartsAre
<1>5. PICK b : b = Block(mod)
  OBVIOUS
<1>6. b \in Blocks /\ b \in DOMAIN mem /\ DOMAIN mem[b] = 0 .. (size - 1) /\ mod.p_ram = <<b, 0>>
  <2>1. RamSize(mod, i) # 0
    BY <1>2, <1>3
  <2>2. PICK c \in Blocks : mod.p_ram = <<c, 0>> /\ c \in DOMAIN mem
    BY <2>1 DEF HasRam
  <2>3. c = b
    BY <2>2, <1>5 DEF Block
  <2> QED
    BY <1>3, <1>5, <2>1, <2>2, <2>3 DEF HasRam
<1>7. b # "flash" /\ b # "buffer"
  BY <1>6, UdynlinkConstants
<1>8. PICK words : words = IF mod.mode = "COPY_ALL" THEN Copied(mod.p_header, Size(i))
                           ELSE Copied(Plus(Code(mod, i), i.code), i.data)
  OBVIOUS
<1>9. PICK n \in Nat : n = IF mod.mode = "COPY_ALL" THEN offset + code + data ELSE data
  BY <1>2
<1>10. PICK from \in Nat : from = IF mod.mode = "COPY_ALL" THEN 0 ELSE offset + code
  BY <1>2
<1>11. /\ DOMAIN words = 0 .. (n - 1)
       /\ \A o \in 0 .. (n - 1) : words[o] = <<"image", i, from + o>>
  <2>1. \A o \in 0 .. (offset + code + data - 1) :
            o \in DOMAIN Stored(i) /\ Stored(i)[o] = <<"image", i, o>>
    BY <1>1, <1>3, StoredWords
  <2>2. CASE mod.mode = "COPY_ALL"
    <3>1. mod.p_header = <<"buffer", 0>> /\ mem["buffer"] = Stored(i) /\ "buffer" \in DOMAIN mem
      BY <2>2 DEF Source, LoaderInv, MemInv
    <3>2. words = [k \in 0 .. (n - 1) |-> Read(Plus(mod.p_header, k))] /\ from = 0
      BY <1>3, <1>8, <1>9, <1>10, <2>2 DEF Copied
    <3>3. ASSUME NEW o \in 0 .. (n - 1)
          PROVE  Read(Plus(mod.p_header, o)) = <<"image", i, from + o>>
      <4>1. o \in 0 .. (offset + code + data - 1)
        BY <1>9, <2>2
      <4>2. Plus(mod.p_header, o) = <<"buffer", o>>
        BY <3>1 DEF Plus
      <4>3. from + o = o
        BY <3>2
      <4> QED
        BY <2>1, <3>1, <4>1, <4>2, <4>3 DEF Read
    <3> QED
      BY <3>2, <3>3
  <2>3. CASE mod.mode = "XIP"
    <3>1. mod.p_header = <<"flash", 0>> /\ mem["flash"] = Stored(i) /\ "flash" \in DOMAIN mem
      BY <2>3 DEF Source, LoaderInv, MemInv
    <3>2. Plus(Code(mod, i), i.code) = <<"flash", offset + code>>
      BY <1>2, <1>3, <3>1 DEF Code, Plus
    <3>3. words = [k \in 0 .. (n - 1) |-> Read(Plus(<<"flash", offset + code>>, k))]
          /\ from = offset + code /\ n = data
      BY <1>3, <1>8, <1>9, <1>10, <2>3, <3>2 DEF Copied
    <3>4. ASSUME NEW o \in 0 .. (n - 1)
          PROVE  Read(Plus(<<"flash", offset + code>>, o)) = <<"image", i, from + o>>
      <4>1. offset + code + o \in 0 .. (offset + code + data - 1)
        BY <1>2, <3>3
      <4>2. Plus(<<"flash", offset + code>>, o) = <<"flash", offset + code + o>>
        BY DEF Plus
      <4>3. from + o = offset + code + o
        BY <3>3
      <4>4. Stored(i)[offset + code + o] = <<"image", i, offset + code + o>>
            /\ offset + code + o \in DOMAIN Stored(i)
        BY <2>1, <4>1
      <4> QED
        BY <3>1, <4>2, <4>3, <4>4 DEF Read
    <3> QED
      BY <3>3, <3>4
  <2> QED
    BY <1>1, <2>2, <2>3 DEF Mode
<1>12. lot + n = start + data
  <2>1. CASE mod.mode = "COPY_ALL"
    BY <2>1, <1>2, <1>4, <1>9
  <2>2. CASE mod.mode = "XIP"
    BY <2>2, <1>2, <1>4, <1>9
  <2> QED
    BY <1>1, <2>1, <2>2 DEF Mode
<1>13. PICK copied : copied = IF words = <<>> THEN mem ELSE Written(mem, b, lot, words)
  OBVIOUS
<1>14. /\ DOMAIN copied = DOMAIN mem /\ DOMAIN copied[b] = 0 .. (size - 1)
       /\ copied["flash"] = mem["flash"]
       /\ \A o \in 0 .. (n - 1) : copied[b][lot + o] = <<"image", i, from + o>>
  <2>1. CASE words = <<>>
    <3>1. n = 0
      <4>1. ASSUME n # 0
            PROVE  FALSE
        <5>1. 0 \in DOMAIN words
          BY <1>9, <1>11, <4>1
        <5> QED
          BY <2>1, <5>1, SomeWords
      <4> QED
        BY <4>1
    <3> QED
      BY <1>6, <1>13, <2>1, <3>1
  <2>2. CASE words # <<>>
    <3>1. copied = Written(mem, b, lot, words)
      BY <1>13, <2>2
    <3>2. /\ DOMAIN copied = DOMAIN mem /\ DOMAIN copied[b] = DOMAIN mem[b]
          /\ \A q \in DOMAIN mem : q # b => copied[q] = mem[q]
          /\ \A o \in DOMAIN mem[b] : o - lot \in DOMAIN words => copied[b][o] = words[o - lot]
      BY <1>2, <1>6, <3>1, WrittenWords
    <3>3. ASSUME NEW o \in 0 .. (n - 1)
          PROVE  copied[b][lot + o] = <<"image", i, from + o>>
      <4>1. lot + o \in 0 .. (size - 1) /\ (lot + o) - lot = o
        BY <1>2, <1>4, <1>9, <1>12
      <4> QED
        BY <1>6, <1>11, <3>2, <4>1
    <3>4. "flash" \in DOMAIN mem
      BY DEF LoaderInv, MemInv
    <3> QED
      BY <1>6, <1>7, <3>2, <3>3, <3>4
  <2> QED
    BY <2>1, <2>2
<1>15. Plus(Data(Moved(i), i), i.data) = <<b, start + data>>
  <2>1. CASE mod.mode = "COPY_ALL"
    <3>1. Moved(i) = [mod EXCEPT !.p_header = <<b, lot>>]
      BY SMTT(30), <1>2, <1>3, <1>6, <2>1 DEF Moved, Plus
    <3>2. Moved(i).mode = "COPY_ALL" /\ Moved(i).p_header = <<b, lot>>
      BY <1>1, <2>1, <3>1 DEF ModuleType
    <3>3. Data(Moved(i), i) = <<b, lot + (offset + code)>>
      BY <1>3, <3>2 DEF Data, Plus
    <3>4. lot + (offset + code) = start
      BY <1>2, <1>4, <2>1
    <3> QED
      BY <1>3, <3>3, <3>4 DEF Plus
  <2>2. CASE mod.mode = "XIP"
    <3>1. Moved(i) = mod
      BY <2>2 DEF Moved
    <3>2. Data(Moved(i), i) = <<b, start>>
      BY <1>2, <1>3, <1>4, <1>6, <2>2, <3>1 DEF Data, Plus
    <3> QED
      BY <1>3, <3>2 DEF Plus
  <2> QED
    BY <1>1, <2>1, <2>2 DEF Mode
<1>16. PICK cleared : cleared = Cleared(i, i.bss)
  OBVIOUS
<1>17. DOMAIN cleared = 0 .. (bss - 1) /\ \A o \in 0 .. (bss - 1) : cleared[o] = <<"bss", i, o>>
  BY <1>3, <1>16 DEF Cleared
<1>18. /\ mem' = IF cleared = <<>> THEN copied ELSE Written(copied, b, start + data, cleared)
       /\ mod' = Moved(i)
       /\ overrun' = (overrun \/ Outside(mem, b, lot, words) \/ Outside(mem, b, start + data, cleared))
  <2>1. Header(mod) = i
    BY SourceHeader DEF LoaderInv
  <2>2. mod.p_ram[1] = b
    BY <1>6
  <2>3. PICK clear : clear = Plus(Data(Moved(i), i), i.data)
    OBVIOUS
  <2>4. clear[1] = b /\ clear[2] = start + data
    BY <1>15, <2>3
  <2> QED
    BY <1>3, <1>8, <1>13, <1>16, <2>1, <2>2, <2>3, <2>4 DEF Copy
<1>19. overrun' = FALSE
  <2>1. ~Outside(mem, b, lot, words)
    <3>1. CASE n = 0
      <4>1. words = <<>>
        BY <1>3, <1>8, <1>9, <3>1, NoWords
      <4> QED
        BY <4>1 DEF Outside
    <3>2. ASSUME NEW k \in DOMAIN words
          PROVE  lot + k \in DOMAIN mem[b]
      <4>1. k \in 0 .. (n - 1)
        BY <1>11
      <4>2. lot + k \in 0 .. (size - 1)
        BY <1>2, <1>4, <1>9, <1>12, <4>1
      <4> QED
        BY <1>6, <4>2
    <3> QED
      BY <1>6, <3>2 DEF Outside
  <2>2. ~Outside(mem, b, start + data, cleared)
    <3>1. ASSUME NEW k \in DOMAIN cleared
          PROVE  start + data + k \in DOMAIN mem[b]
      BY <1>2, <1>4, <1>6, <1>17
    <3> QED
      BY <1>6, <3>1 DEF Outside
  <2>3. overrun = FALSE
    BY DEF LoaderInv, TypeInv
  <2> QED
    BY <1>18, <2>1, <2>2, <2>3
<1>20. /\ DOMAIN mem' = DOMAIN mem /\ DOMAIN mem'[b] = 0 .. (size - 1)
       /\ mem'["flash"] = mem["flash"]
       /\ \A o \in 0 .. (bss - 1) : mem'[b][start + data + o] = <<"bss", i, o>>
       /\ \A o \in 0 .. (n - 1) : mem'[b][lot + o] = <<"image", i, from + o>>
  <2>1. CASE cleared = <<>>
    <3>1. bss = 0
      <4>1. ASSUME bss # 0
            PROVE  FALSE
        <5>1. 0 \in DOMAIN cleared
          BY <1>2, <1>17, <4>1
        <5> QED
          BY <2>1, <5>1, SomeWords
      <4> QED
        BY <4>1
    <3>2. mem' = copied
      BY <1>18, <2>1
    <3>3. \A o \in 0 .. (bss - 1) : FALSE
      BY <3>1
    <3> QED
      BY <1>14, <3>2, <3>3
  <2>2. CASE cleared # <<>>
    <3>1. mem' = Written(copied, b, start + data, cleared)
      BY <1>18, <2>2
    <3>2. b \in DOMAIN copied /\ "flash" \in DOMAIN copied /\ start + data \in Int
      <4>1. "flash" \in DOMAIN mem
        BY DEF LoaderInv, MemInv
      <4> QED
        BY <1>2, <1>6, <1>14, <4>1
    <3>3. /\ DOMAIN mem' = DOMAIN copied /\ DOMAIN mem'[b] = DOMAIN copied[b]
          /\ \A q \in DOMAIN copied : q # b => mem'[q] = copied[q]
          /\ \A o \in DOMAIN copied[b] :
                /\ o - (start + data) \in DOMAIN cleared => mem'[b][o] = cleared[o - (start + data)]
                /\ o - (start + data) \notin DOMAIN cleared => mem'[b][o] = copied[b][o]
      BY <3>1, <3>2, WrittenWords
    <3>4. ASSUME NEW o \in 0 .. (bss - 1)
          PROVE  mem'[b][start + data + o] = <<"bss", i, o>>
      <4>1. start + data + o \in 0 .. (size - 1) /\ (start + data + o) - (start + data) = o
        BY <1>2, <1>4
      <4> QED
        BY <1>14, <1>17, <3>3, <4>1
    <3>5. ASSUME NEW o \in 0 .. (n - 1)
          PROVE  mem'[b][lot + o] = <<"image", i, from + o>>
      <4>1. lot + o \in 0 .. (size - 1) /\ (lot + o) - (start + data) \notin 0 .. (bss - 1)
        BY <1>2, <1>4, <1>9, <1>12
      <4> QED
        BY <1>14, <1>17, <3>3, <4>1
    <3> QED
      BY <1>7, <1>14, <3>2, <3>3, <3>4, <3>5
  <2> QED
    BY <2>1, <2>2
<1>21. ASSUME mod.mode = "COPY_ALL"
       PROVE  \A o \in 0 .. (Size(i) - 1) : mem'[b][i.lot + o] = <<"image", i, o>>
  <2>1. n = Size(i) /\ from = 0
    BY <1>3, <1>9, <1>10, <1>21
  <2>2. ASSUME NEW o \in 0 .. (Size(i) - 1)
        PROVE  mem'[b][i.lot + o] = <<"image", i, o>>
    <3>1. o \in 0 .. (n - 1) /\ from + o = o
      BY <2>1
    <3> QED
      BY <1>3, <1>20, <3>1
  <2> QED
    BY <2>2
<1>22. ASSUME mod.mode = "XIP"
       PROVE  \A o \in 0 .. (i.data - 1) :
                 mem'[b][i.lot + o] = <<"image", i, CodeOffset(i) + i.code + o>>
  <2>1. n = data /\ from = offset + code
    BY <1>9, <1>10, <1>22
  <2> QED
    BY <1>3, <1>20, <2>1
<1>23. \A o \in 0 .. (i.bss - 1) : mem'[b][DataAt(mod, i) + i.data + o] = <<"bss", i, o>>
  BY <1>3, <1>20
<1> QED
  BY <1>3, <1>5, <1>6, <1>18, <1>19, <1>20, <1>21, <1>22, <1>23

LEMMA MovedModule ==
    ASSUME Deployment, LoaderInv, NEW i \in Images, HasRam(mem, mod, i)
    PROVE  /\ Moved(i) \in ModuleType
           /\ Moved(i).p_ram = mod.p_ram /\ Moved(i).mode = mod.mode
           /\ mod.mode = "XIP" => Moved(i).p_header = mod.p_header
           /\ mod.mode = "COPY_ALL" => Moved(i).p_header = <<Block(mod), i.lot>>
           /\ RamSize(Moved(i), i) = RamSize(mod, i) /\ DataAt(Moved(i), i) = DataAt(mod, i)
           /\ Block(Moved(i)) = Block(mod)
<1>1. Mode(mod) /\ mod \in ModuleType /\ Linkable(i) /\ i.lot \in Nat
  BY ModeKnown, Layout DEF LoaderInv, TypeInv, Deployment
<1>2. CASE mod.mode = "XIP"
  <2>1. Moved(i) = mod
    BY <1>2 DEF Moved
  <2> QED
    BY <1>1, <1>2, <2>1
<1>3. CASE mod.mode = "COPY_ALL"
  <2>1. RamSize(mod, i) # 0
    BY <1>1, <1>3, WithoutRam
  <2>2. PICK b \in Blocks : mod.p_ram = <<b, 0>>
    BY <2>1 DEF HasRam
  <2>3. Block(mod) = b
    BY <2>2 DEF Block
  <2>4. Plus(mod.p_ram, i.lot) = <<b, i.lot>>
    BY <1>1, <2>2 DEF Plus
  <2>5. PICK moved : moved = Moved(i)
    OBVIOUS
  <2>6. moved = [mod EXCEPT !.p_header = <<b, i.lot>>]
    BY <1>3, <2>4, <2>5 DEF Moved
  <2>7. <<b, i.lot>> \in Regions \X Nat
    BY <1>1, <2>2 DEF Regions
  <2>8. /\ moved \in ModuleType /\ moved.p_ram = mod.p_ram /\ moved.mode = mod.mode
        /\ moved.p_header = <<b, i.lot>>
    BY <1>1, <2>6, <2>7 DEF ModuleType
  <2>9. RamSize(moved, i) = RamSize(mod, i)
    BY <2>8 DEF RamSize
  <2>10. DataAt(moved, i) = DataAt(mod, i)
    BY <2>9 DEF DataAt
  <2>11. Block(moved) = Block(mod)
    BY <2>8 DEF Block
  <2> QED
    BY <1>3, <2>3, <2>5, <2>8, <2>9, <2>10, <2>11
<1> QED
  BY <1>1, <1>2, <1>3 DEF Mode

\* After the copy the program is linked but for its relocations.
LEMMA CopyLinks ==
    ASSUME Deployment, LoaderInv, Copy,
           NEW i \in Images, i.sign, Source(mem, mod, i), HasRam(mem, mod, i)
    PROVE  /\ mod' = Moved(i) /\ overrun' = FALSE
           /\ DOMAIN mem' = DOMAIN mem /\ mem'["flash"] = mem["flash"]
           /\ Linked(mem', Moved(i), i, 0)
<1>1. Mode(mod) /\ Linkable(i)
  BY ModeKnown DEF LoaderInv, TypeInv, Deployment
<1>2. PICK md : md = Moved(i)
  OBVIOUS
<1>3. /\ md.p_ram = mod.p_ram /\ md.mode = mod.mode
      /\ mod.mode = "XIP" => md.p_header = mod.p_header
      /\ mod.mode = "COPY_ALL" => md.p_header = <<Block(mod), i.lot>>
      /\ RamSize(md, i) = RamSize(mod, i) /\ DataAt(md, i) = DataAt(mod, i) /\ Block(md) = Block(mod)
  BY <1>2, MovedModule
<1>4. ASSUME NEW m
      PROVE  Relocated(m, md, i, 0)
  BY DEF Relocated
<1>5. mod.mode = "XIP" => mod.p_header = <<"flash", 0>> /\ mem["flash"] = Stored(i)
  BY DEF Source
<1>6. CASE RamSize(mod, i) = 0
  <2>1. mod.mode = "XIP" /\ i.data = 0 /\ i.bss = 0
    BY <1>1, <1>6, WithoutRam
  <2>2. Copied(Plus(Code(mod, i), i.code), i.data) = <<>> /\ Cleared(i, i.bss) = <<>>
    BY <2>1, NoWords
  <2>3. Header(mod) = i
    BY SourceHeader DEF LoaderInv
  <2>4. \A r, n : ~Outside(mem, r, n, <<>>)
    BY DEF Outside
  <2>5. mem' = mem /\ mod' = Moved(i)
    BY <2>1, <2>2, <2>3 DEF Copy
  <2>6. overrun' = FALSE
    <3>1. overrun = FALSE
      BY DEF LoaderInv, TypeInv
    <3> QED
      BY <2>1, <2>2, <2>3, <2>4, <3>1 DEF Copy
  <2>7. HasRam(mem, md, i)
    BY <1>3, <1>6 DEF HasRam
  <2>8. InPlace(mem, md, i)
    BY <1>3, <1>5, <2>1 DEF InPlace
  <2>9. DataCopied(mem, md, i, 0) /\ BssCleared(mem, md, i)
    BY <2>1 DEF DataCopied, BssCleared
  <2> QED
    BY <1>2, <1>4, <2>5, <2>6, <2>7, <2>8, <2>9 DEF Linked
<1>7. CASE RamSize(mod, i) > 0
  <2>1. /\ mod' = Moved(i) /\ overrun' = FALSE
        /\ Block(mod) \in Blocks /\ mod.p_ram = <<Block(mod), 0>>
        /\ DOMAIN mem' = DOMAIN mem /\ mem'["flash"] = mem["flash"]
        /\ DOMAIN mem'[Block(mod)] = 0 .. (RamSize(mod, i) - 1)
        /\ \A o \in 0 .. (i.bss - 1) :
              mem'[Block(mod)][DataAt(mod, i) + i.data + o] = <<"bss", i, o>>
        /\ mod.mode = "COPY_ALL" => \A o \in 0 .. (Size(i) - 1) :
              mem'[Block(mod)][i.lot + o] = <<"image", i, o>>
        /\ mod.mode = "XIP" => \A o \in 0 .. (i.data - 1) :
              mem'[Block(mod)][i.lot + o] = <<"image", i, CodeOffset(i) + i.code + o>>
    BY <1>7, CopyWrites
  <2>2. PICK m, b : m = mem' /\ b = Block(mod)
    OBVIOUS
  <2>3. PICK lot, code, data, bss, offset, start, size \in Nat :
            PartsAre(mod, i, lot, code, data, bss, offset, start, size)
    BY <1>1, Parts DEF HasParts
  <2>4. /\ lot = i.lot /\ code = i.code /\ data = i.data /\ offset = CodeOffset(i)
        /\ start = DataAt(mod, i) /\ Size(i) = offset + code + data
    BY <2>3 DEF PartsAre
  <2>5. /\ mod.mode = "COPY_ALL" => start = lot + offset + code
        /\ mod.mode = "XIP" => start = lot
    BY <2>3 DEF PartsAre
  <2>6. ASSUME mod.mode = "COPY_ALL", NEW o \in 0 .. (offset + code + data - 1)
         PROVE  m[b][lot + o] = <<"image", i, o>>
    <3>1. o \in 0 .. (Size(i) - 1)
      BY <2>4
    <3>2. mem'[Block(mod)][i.lot + o] = <<"image", i, o>>
      BY <2>1, <2>6, <3>1
    <3> QED
      BY <2>2, <2>4, <3>2
  <2>7. HasRam(m, md, i)
    <3>1. b \in DOMAIN m
      <4>1. RamSize(mod, i) # 0
        BY <1>1, <1>7, RamLayout
      <4>2. PICK c \in Blocks : mod.p_ram = <<c, 0>> /\ c \in DOMAIN mem
        BY <4>1 DEF HasRam
      <4> QED
        BY <2>1, <2>2, <4>2
    <3> QED
      BY <1>3, <1>7, <2>1, <2>2, <3>1 DEF HasRam
  <2>8. InPlace(m, md, i)
    <3>1. CASE mod.mode = "XIP"
      BY <1>3, <1>5, <2>1, <2>2, <3>1 DEF InPlace
    <3>2. CASE mod.mode = "COPY_ALL"
      <4>1. \A o \in 0 .. (offset + code - 1) : o \in 0 .. (offset + code + data - 1)
        BY <2>3
      <4>2. \A o \in 0 .. (offset + code - 1) : m[b][i.lot + o] = <<"image", i, o>>
        BY <2>4, <2>6, <3>2, <4>1
      <4> QED
        BY <1>3, <2>2, <2>4, <3>2, <4>2 DEF InPlace
    <3> QED
      BY <1>1, <3>1, <3>2 DEF Mode
  <2>9. DataCopied(m, md, i, 0)
    <3>1. ASSUME NEW o \in 0 .. (data - 1)
          PROVE  m[b][start + o] = <<"image", i, offset + code + o>>
      <4>1. CASE mod.mode = "XIP"
        BY <2>1, <2>2, <2>4, <2>5, <4>1
      <4>2. CASE mod.mode = "COPY_ALL"
        <5>1. offset + code + o \in 0 .. (offset + code + data - 1)
              /\ lot + (offset + code + o) = start + o
          BY <2>3, <2>5, <4>2
        <5>2. m[b][lot + (offset + code + o)] = <<"image", i, offset + code + o>>
          BY <2>6, <4>2, <5>1
        <5> QED
          BY <5>1, <5>2
      <4> QED
        BY <1>1, <4>1, <4>2 DEF Mode
    <3> QED
      BY <1>3, <2>2, <2>4, <3>1 DEF DataCopied
  <2>10. BssCleared(m, md, i)
    BY <1>3, <2>1, <2>2 DEF BssCleared
  <2> QED
    BY <1>2, <1>4, <2>1, <2>2, <2>7, <2>8, <2>9, <2>10 DEF Linked
<1>8. RamSize(mod, i) = 0 \/ RamSize(mod, i) > 0
  <2>1. RamSize(mod, i) \in Nat
    BY <1>1, RamLayout
  <2> QED
    BY <2>1
<1> QED
  BY <1>6, <1>7, <1>8

LEMMA CopyKeeps ==
    ASSUME Deployment, LoaderInv, Copy
    PROVE  LoaderInv'
<1>1. at = "copy" /\ at' = "relocate" /\ plc_initialized' = plc_initialized /\ ptrs' = ptrs /\ rel' = rel
  BY DEF Copy
<1>2. PICK i \in Images : i.sign /\ Source(mem, mod, i) /\ HasRam(mem, mod, i)
  BY <1>1 DEF LoaderInv, CopyInv
<1>3. /\ mod' = Moved(i) /\ overrun' = FALSE
      /\ DOMAIN mem' = DOMAIN mem /\ mem'["flash"] = mem["flash"]
      /\ Linked(mem', Moved(i), i, 0)
  BY <1>2, CopyLinks
<1>4. Moved(i) \in ModuleType /\ Moved(i).p_ram = mod.p_ram
  BY <1>2, MovedModule
<1>5. TypeInv'
  BY <1>1, <1>3, <1>4 DEF LoaderInv, TypeInv
<1>6. MemInv(mem', mod')
  BY <1>3, <1>4 DEF LoaderInv, MemInv
<1>7. RelocateInv'
  <2>1. rel' = 0
    BY <1>1 DEF LoaderInv, CopyInv
  <2>2. Len(i.rels) \in Nat
    BY Layout DEF Deployment
  <2> QED
    BY <1>3, <2>1, <2>2 DEF RelocateInv
<1>8. SetupInv' /\ CopyInv' /\ LookupInv' /\ IdleInv'
  BY <1>1 DEF SetupInv, CopyInv, LookupInv, IdleInv
<1> QED
  BY <1>5, <1>6, <1>7, <1>8 DEF LoaderInv

-----------------------------------------------------------------------------
(* The relocations                                                         *)

\* The relocation of the program i that is next is applied where Slot says, to the word
\* of the LOT, or of the data that is still the program's.
LEMMA RelocateWrites ==
    ASSUME Deployment, LoaderInv, Relocate, NEW i \in Images, Linked(mem, mod, i, rel),
           rel < Len(i.rels), i.rels[rel + 1].abs \/ Resolved(i, i.rels[rel + 1].sym),
           NEW n \in 1 .. Len(i.rels), n = rel + 1,
           NEW t, t = Target(mod, i, i.rels[n])
    PROVE  /\ mem' = Written(mem, Block(mod), Slot(mod, i, i.rels[n]), [k \in {0} |-> <<"ptr", t[1], t[2]>>])
           /\ rel' = n /\ overrun' = FALSE /\ at' = at
<1>1. Mode(mod) /\ Linkable(i) /\ rel \in Nat
  BY ModeKnown DEF LoaderInv, TypeInv, Deployment
<1>2. PICK r : r = i.rels[n]
  OBVIOUS
<1>3. /\ r.abs \in BOOLEAN /\ r.at \in Nat /\ (r.abs => r.at >= i.lot) /\ r.at < i.lot + i.data
      /\ RamSize(mod, i) > 0
      /\ Slot(mod, i, r) \in 0 .. (RamSize(mod, i) - 1)
  BY <1>1, <1>2, RelocationPlace
<1>4. HasRam(mem, mod, i) /\ InPlace(mem, mod, i)
  BY DEF Linked
<1>5. /\ Block(mod) \in Blocks /\ mod.p_ram = <<Block(mod), 0>> /\ Block(mod) \in DOMAIN mem
      /\ DOMAIN mem[Block(mod)] = 0 .. (RamSize(mod, i) - 1)
      /\ Data(mod, i) = <<Block(mod), DataAt(mod, i)>>
  BY <1>1, <1>3, <1>4, DataPlace DEF InPlace
<1>6. PICK lot, code, data, bss, offset, start, size \in Nat :
          PartsAre(mod, i, lot, code, data, bss, offset, start, size)
  BY <1>1, Parts DEF HasParts
<1>7. lot = i.lot /\ data = i.data /\ start = DataAt(mod, i) /\ offset = CodeOffset(i) /\ code = i.code
  BY <1>6 DEF PartsAre
<1>8. PICK place \in Nat : place = r.at
  BY <1>3
<1>9. Location(i, r) = <<Block(mod), Slot(mod, i, r)>>
  <2>1. CASE place < lot
    BY <1>5, <1>7, <1>8, <2>1 DEF Location, Slot, Plus
  <2>2. CASE ~(place < lot)
    BY <1>5, <1>7, <1>8, <2>2 DEF Location, Slot, Plus
  <2> QED
    BY <2>1, <2>2
<1>10. PICK loc : loc = Location(i, r)
  OBVIOUS
<1>11. ASSUME r.abs
       PROVE  Read(loc) # Junk /\ Read(loc)[1] = "image"
  <2> place >= lot /\ place < lot + data
    BY <1>3, <1>7, <1>8, <1>11
  <2>1. PICK o \in Nat : o = place - lot
    BY <1>6, <1>8
  <2>2. o \in 0 .. (data - 1)
    BY SMTT(30), <1>6, <1>8, <2>1
  <2>3. Slot(mod, i, r) = start + o
    <3>1. ~(place < lot)
      BY <1>6, <1>8
    <3>2. Slot(mod, i, r) = start + (place - lot)
      BY <1>7, <1>8, <3>1 DEF Slot
    <3> QED
      BY <2>1, <3>2
  <2>4. ~(\E q \in 1 .. rel : i.rels[q].at = lot + o)
    <3>1. ASSUME NEW q \in 1 .. rel, i.rels[q].at = lot + o
          PROVE  FALSE
      <4>1. q \in 1 .. Len(i.rels) /\ q # n
        BY <1>1, Layout
      <4>2. lot + o = place
        BY SMTT(30), <1>6, <1>8, <2>1
      <4>3. i.rels[q].at = i.rels[n].at
        BY <1>2, <1>8, <3>1, <4>2
      <4>4. q \in DOMAIN i.rels /\ n \in DOMAIN i.rels
        BY <1>1, <4>1, Layout
      <4> QED
        BY <1>1, <4>1, <4>3, <4>4 DEF Linkable
    <3> QED
      BY <3>1
  <2>5. mem[Block(mod)][start + o] = <<"image", i, offset + code + o>>
    BY <1>7, <2>2, <2>4 DEF Linked, DataCopied
  <2>6. Read(loc) = <<"image", i, offset + code + o>>
    BY <1>3, <1>5, <1>9, <1>10, <2>3, <2>5 DEF Read
  <2> QED
    BY <2>6 DEF Junk
<1>12. Header(mod) = i
  BY LinkedHeader
<1>13. PICK target : target = IF r.abs THEN Plus(Data(mod, i), r.sym) ELSE SymValue(mod, i, i.syms[r.sym])
  OBVIOUS
<1>14. target = t
  BY <1>2, <1>13 DEF Target
<1>15. PICK word : word = IF r.abs /\ (Read(loc) = Junk \/ Read(loc)[1] # "image") THEN Junk
                          ELSE <<"ptr", target[1], target[2]>>
  OBVIOUS
<1>16. word = <<"ptr", t[1], t[2]>>
  BY <1>11, <1>14, <1>15
<1>17. /\ mem' = IF loc[1] \in DOMAIN mem THEN Written(mem, loc[1], loc[2], [k \in {0} |-> word]) ELSE mem
       /\ overrun' = (overrun \/ Outside(mem, loc[1], loc[2], [k \in {0} |-> word]))
       /\ rel' = rel + 1 /\ at' = at
  <2>1. rel # Len(i.rels)
    BY <1>1, Layout
  <2> QED
    BY <1>2, <1>10, <1>12, <1>13, <1>15, <2>1 DEF Relocate
<1>18. loc[1] = Block(mod) /\ loc[2] = Slot(mod, i, r)
  BY <1>9, <1>10
<1>19. ~Outside(mem, loc[1], loc[2], [k \in {0} |-> word])
  <2>1. loc[2] + 0 = loc[2]
    BY <1>3, <1>18
  <2>2. \A k \in DOMAIN [q \in {0} |-> word] : loc[2] + k \in DOMAIN mem[loc[1]]
    BY <1>3, <1>5, <1>18, <2>1
  <2> QED
    BY <1>5, <1>18, <2>2 DEF Outside
<1>20. overrun = FALSE
  BY DEF LoaderInv, TypeInv
<1> QED
  BY <1>2, <1>5, <1>16, <1>17, <1>18, <1>19, <1>20

\* After it is applied one more word is relocated.
LEMMA RelocateLinks ==
    ASSUME Deployment, LoaderInv, NEW i \in Images, Linked(mem, mod, i, rel),
           rel < Len(i.rels), i.rels[rel + 1].abs \/ Resolved(i, i.rels[rel + 1].sym),
           NEW n \in 1 .. Len(i.rels), n = rel + 1,
           NEW t, t = Target(mod, i, i.rels[n]), NEW later,
           later = Written(mem, Block(mod), Slot(mod, i, i.rels[n]), [k \in {0} |-> <<"ptr", t[1], t[2]>>])
    PROVE  /\ DOMAIN later = DOMAIN mem /\ later["flash"] = mem["flash"]
           /\ Linked(later, mod, i, n)
<1>1. Mode(mod) /\ Linkable(i) /\ rel \in Nat /\ n \in Nat
  BY ModeKnown DEF LoaderInv, TypeInv, Deployment
<1>2. PICK lot, code, data, bss, offset, start, size \in Nat :
          PartsAre(mod, i, lot, code, data, bss, offset, start, size)
  BY <1>1, Parts DEF HasParts
<1>3. /\ lot = i.lot /\ code = i.code /\ data = i.data /\ bss = i.bss /\ offset = CodeOffset(i)
      /\ start = DataAt(mod, i) /\ size = RamSize(mod, i)
  BY <1>2 DEF PartsAre
<1>4. size = start + data + bss /\ start >= lot
  BY <1>2 DEF PartsAre
<1>5. i.sign /\ HasRam(mem, mod, i) /\ InPlace(mem, mod, i) /\ RamSize(mod, i) > 0
  BY <1>1, RelocationPlace DEF Linked
<1>6. PICK b : b = Block(mod)
  OBVIOUS
<1>7. b \in Blocks /\ mod.p_ram = <<b, 0>> /\ b \in DOMAIN mem /\ DOMAIN mem[b] = 0 .. (size - 1)
  BY <1>1, <1>3, <1>5, <1>6, DataPlace DEF InPlace
<1>8. PICK place \in Nat : place = i.rels[n].at /\ place < lot + data
  BY <1>1, <1>3, RelocationPlace
<1>9. PICK slot : slot = Slot(mod, i, i.rels[n])
  OBVIOUS
<1>10. slot = IF place < lot THEN place ELSE start + (place - lot)
  BY <1>3, <1>8, <1>9 DEF Slot
<1>11. /\ slot \in 0 .. (size - 1)
       /\ slot < lot \/ (slot >= start /\ slot < start + data)
       /\ slot >= start => slot = start + (place - lot)
  <2>1. CASE place < lot
    BY SMTT(30), <1>2, <1>4, <1>8, <1>10, <2>1
  <2>2. CASE ~(place < lot)
    <3>1. slot = start + (place - lot)
      BY <1>10, <2>2
    <3>2. place < lot + data
      BY <1>8
    <3> QED
      BY <1>2, <1>4, <2>2, <3>1, <3>2
  <2> QED
    BY <2>1, <2>2
<1>12. PICK word : word = <<"ptr", t[1], t[2]>>
  OBVIOUS
<1>13. PICK w : w = [k \in {0} |-> word]
  OBVIOUS
<1>14. DOMAIN w = {0} /\ w[0] = word
  BY <1>13
<1>15. /\ DOMAIN later = DOMAIN mem /\ DOMAIN later[b] = DOMAIN mem[b]
       /\ \A q \in DOMAIN mem : q # b => later[q] = mem[q]
       /\ \A o \in DOMAIN mem[b] :
             /\ o - slot \in DOMAIN w => later[b][o] = w[o - slot]
             /\ o - slot \notin DOMAIN w => later[b][o] = mem[b][o]
  <2>1. later = Written(mem, b, slot, w)
    BY <1>6, <1>9, <1>12, <1>13
  <2>2. slot \in Int
    BY <1>11
  <2> QED
    BY ONLY <1>7, <2>1, <2>2, WrittenWords
<1>16. later[b][slot] = word /\ \A o \in 0 .. (size - 1) : o # slot => later[b][o] = mem[b][o]
  <2>1. slot - slot = 0 /\ \A o \in 0 .. (size - 1) : o # slot => o - slot # 0
    BY <1>11
  <2> QED
    BY <1>7, <1>11, <1>14, <1>15, <2>1
<1>17. later["flash"] = mem["flash"]
  <2>1. "flash" \in DOMAIN mem /\ b # "flash"
    BY <1>7, UdynlinkConstants DEF LoaderInv, MemInv
  <2> QED
    BY <1>15, <2>1
<1>18. HasRam(later, mod, i)
  BY <1>3, <1>5, <1>6, <1>7, <1>15 DEF HasRam
<1>19. InPlace(later, mod, i)
  <2>1. CASE mod.mode = "XIP"
    BY <1>5, <1>17, <2>1 DEF InPlace
  <2>2. CASE mod.mode = "COPY_ALL"
    <3>1. ASSUME NEW o \in 0 .. (offset + code - 1)
          PROVE  later[b][lot + o] = <<"image", i, o>>
      <4> start = lot + offset + code
        BY <1>2, <2>2 DEF PartsAre
      <4>1. lot + o \in 0 .. (size - 1)
        <5>1. lot + o < start /\ lot + o >= 0
          OBVIOUS
        <5> QED
          BY ONLY <1>4, <5>1, lot \in Nat, o \in 0 .. (offset + code - 1), size \in Nat,
                  start \in Nat, data \in Nat, bss \in Nat
      <4>2. lot + o # slot
        <5>1. slot < lot \/ slot >= start
          BY <1>11
        <5> QED
          BY SMTT(30), <1>2, <1>11, <5>1
      <4>3. mem[b][lot + o] = <<"image", i, o>>
        BY <1>3, <1>5, <1>6, <2>2 DEF InPlace
      <4> QED
        BY <1>16, <4>1, <4>2, <4>3
    <3> QED
      BY <1>3, <1>5, <1>6, <2>2, <3>1 DEF InPlace
  <2> QED
    BY <1>1, <2>1, <2>2 DEF Mode
<1>20. DataCopied(later, mod, i, n)
  <2>1. ASSUME NEW o \in 0 .. (data - 1)
        PROVE  \/ later[b][start + o] = <<"image", i, offset + code + o>>
               \/ later[b][start + o][1] = "ptr" /\ \E q \in 1 .. n : i.rels[q].at = lot + o
    <3>1. CASE start + o = slot
      <4>1. lot + o = place
        <5>1. slot >= start /\ slot = start + (place - lot)
          BY <1>2, <1>11, <3>1
        <5> QED
          BY <1>2, <3>1, <5>1
      <4>2. later[b][start + o][1] = "ptr"
        <5>1. word[1] = "ptr"
          BY <1>12
        <5> QED
          BY <1>16, <3>1, <5>1
      <4>3. n \in 1 .. n
        BY <1>1
      <4> QED
        BY <1>8, <4>1, <4>2, <4>3
    <3>2. CASE start + o # slot
      <4>1. start + o \in 0 .. (size - 1)
        BY SMTT(30), <1>2, <1>4
      <4>2. later[b][start + o] = mem[b][start + o]
        BY <1>16, <3>2, <4>1
      <4>3. \/ mem[b][start + o] = <<"image", i, offset + code + o>>
            \/ mem[b][start + o][1] = "ptr" /\ \E q \in 1 .. rel : i.rels[q].at = lot + o
        BY <1>3, <1>6 DEF Linked, DataCopied
      <4>4. \A q \in 1 .. rel : q \in 1 .. n
        BY <1>1
      <4> QED
        BY <4>2, <4>3, <4>4
    <3> QED
      BY <3>1, <3>2
  <2> QED
    BY <1>3, <1>6, <2>1 DEF DataCopied
<1>21. BssCleared(later, mod, i)
  <2>1. ASSUME NEW o \in 0 .. (bss - 1)
        PROVE  later[b][start + data + o] = <<"bss", i, o>>
    <3>1. start + data + o \in 0 .. (size - 1) /\ start + data + o # slot
      BY <1>2, <1>4, <1>11
    <3>2. mem[b][start + data + o] = <<"bss", i, o>>
      BY <1>3, <1>6 DEF Linked, BssCleared
    <3> QED
      BY <1>16, <3>1, <3>2
  <2> QED
    BY <1>3, <1>6, <2>1 DEF BssCleared
<1>22. Relocated(later, mod, i, n)
  <2>1. ASSUME NEW q \in 1 .. n, NEW r, r = i.rels[q]
        PROVE  /\ later[b][Slot(mod, i, r)] = <<"ptr", Target(mod, i, r)[1], Target(mod, i, r)[2]>>
               /\ r.abs \/ Resolved(i, r.sym)
    <3>1. CASE q = n
      BY <1>9, <1>12, <1>16, <2>1, <3>1
    <3>2. CASE q # n
      <4>1. q \in 1 .. rel /\ q \in 1 .. Len(i.rels)
        BY <1>1, <3>2, Layout
      <4>2. Slot(mod, i, r) \in 0 .. (size - 1) /\ Slot(mod, i, r) # slot
        BY <1>1, <1>3, <1>9, <2>1, <3>2, <4>1, RelocationPlace, SlotsApart
      <4>3. /\ mem[b][Slot(mod, i, r)] = <<"ptr", Target(mod, i, r)[1], Target(mod, i, r)[2]>>
            /\ r.abs \/ Resolved(i, r.sym)
        BY <1>6, <2>1, <4>1 DEF Linked, Relocated
      <4> QED
        BY <1>16, <4>2, <4>3
    <3> QED
      BY <3>1, <3>2
  <2> QED
    BY <1>6, <2>1 DEF Relocated
<1> QED
  BY <1>5, <1>15, <1>17, <1>18, <1>19, <1>20, <1>21, <1>22 DEF Linked

LEMMA RelocateKeeps ==
    ASSUME Deployment, LoaderInv, Relocate
    PROVE  LoaderInv'
<1>1. at = "relocate" /\ mod' = mod /\ plc_initialized' = plc_initialized /\ ptrs' = ptrs
  BY DEF Relocate
<1>2. PICK i \in Images : rel <= Len(i.rels) /\ Linked(mem, mod, i, rel)
  BY <1>1 DEF LoaderInv, RelocateInv
<1>3. Header(mod) = i
  BY <1>2, LinkedHeader
<1>4. rel \in Nat /\ Len(i.rels) \in Nat
  BY Layout DEF LoaderInv, TypeInv, Deployment
<1>5. CASE rel < Len(i.rels) /\ (i.rels[rel + 1].abs \/ Resolved(i, i.rels[rel + 1].sym))
  <2>1. PICK n \in 1 .. Len(i.rels) : n = rel + 1
    BY <1>4, <1>5
  <2>2. PICK t : t = Target(mod, i, i.rels[n])
    OBVIOUS
  <2>3. /\ mem' = Written(mem, Block(mod), Slot(mod, i, i.rels[n]), [k \in {0} |-> <<"ptr", t[1], t[2]>>])
        /\ rel' = n /\ overrun' = FALSE /\ at' = at
    BY <1>2, <1>5, <2>1, <2>2, RelocateWrites
  <2>4. PICK later : later = mem'
    OBVIOUS
  <2>5. /\ DOMAIN later = DOMAIN mem /\ later["flash"] = mem["flash"]
        /\ Linked(later, mod, i, n)
    BY <1>2, <1>5, <2>1, <2>2, <2>3, <2>4, RelocateLinks
  <2>6. TypeInv'
    BY <1>1, <2>3 DEF LoaderInv, TypeInv
  <2>7. MemInv(mem', mod')
    BY <1>1, <2>4, <2>5 DEF LoaderInv, MemInv
  <2>8. RelocateInv'
    BY <1>1, <2>1, <2>3, <2>4, <2>5 DEF RelocateInv
  <2>9. SetupInv' /\ CopyInv' /\ LookupInv' /\ IdleInv'
    BY <1>1, <2>3 DEF SetupInv, CopyInv, LookupInv, IdleInv
  <2> QED
    BY <2>6, <2>7, <2>8, <2>9 DEF LoaderInv
<1>6. CASE /\ at' \in {"fail", "lookup"} /\ (at' = "lookup" => rel = Len(i.rels))
           /\ mem' = mem /\ overrun' = overrun /\ rel' = rel
  <2>1. TypeInv'
    BY <1>1, <1>6 DEF LoaderInv, TypeInv
  <2>2. MemInv(mem', mod')
    BY <1>1, <1>6 DEF LoaderInv
  <2>3. LookupInv'
    BY <1>1, <1>2, <1>6 DEF LookupInv
  <2>4. SetupInv' /\ CopyInv' /\ RelocateInv' /\ IdleInv'
    BY <1>6 DEF SetupInv, CopyInv, RelocateInv, IdleInv
  <2> QED
    BY <2>1, <2>2, <2>3, <2>4 DEF LoaderInv
<1> QED
  BY <1>3, <1>5, <1>6 DEF Relocate

-----------------------------------------------------------------------------
(* The theorems                                                            *)

LEMMA NothingKeeps ==
    ASSUME LoaderInv, UNCHANGED vars
    PROVE  LoaderInv'
<1>1. /\ mem' = mem /\ mod' = mod /\ overrun' = overrun /\ plc_initialized' = plc_initialized
      /\ ptrs' = ptrs /\ rel' = rel /\ at' = at
  BY DEF vars
<1>2. TypeInv'
  BY <1>1 DEF LoaderInv, TypeInv
<1>3. MemInv(mem', mod')
  BY <1>1 DEF LoaderInv
<1>4. SetupInv' /\ CopyInv'
  BY <1>1 DEF LoaderInv, SetupInv, CopyInv
<1>5. RelocateInv' /\ LookupInv' /\ IdleInv'
  BY <1>1 DEF LoaderInv, RelocateInv, LookupInv, IdleInv
<1> QED
  BY <1>2, <1>3, <1>4, <1>5 DEF LoaderInv

\* Every operation of the loader keeps the invariant.
LEMMA LoaderKept ==
    ASSUME Deployment
    PROVE  LoaderInv /\ [Next]_vars => LoaderInv'
<1> SUFFICES ASSUME LoaderInv, [Next]_vars
             PROVE  LoaderInv'
  OBVIOUS
<1>1. ASSUME NEW i \in Images, LoadFile(i)
      PROVE  LoaderInv'
  BY <1>1, LoadFileKeeps
<1>2. ASSUME NEW i \in Images, Flash(i)
      PROVE  LoaderInv'
  BY <1>2, FlashKeeps
<1>3. CASE LoadFlash
  BY <1>3, LoadFlashKeeps
<1>4. CASE Setup
  BY <1>4, SetupKeeps
<1>5. CASE Copy
  BY <1>5, CopyKeeps
<1>6. CASE Relocate
  BY <1>6, RelocateKeeps
<1>7. CASE LoadFails
  BY <1>7, LoadFailsKeeps
<1>8. CASE LookupSymbols
  BY <1>8, LookupSymbolsKeeps
<1>9. CASE Unload
  BY <1>9, UnloadKeeps
<1>10. CASE Erase
  BY <1>10, EraseKeeps
<1>11. CASE Reset
  BY <1>11, ResetKeeps
<1>12. CASE UNCHANGED vars
  BY <1>12, NothingKeeps
<1> QED
  BY <1>1, <1>2, <1>3, <1>4, <1>5, <1>6, <1>7, <1>8, <1>9, <1>10, <1>11, <1>12 DEF Next

LEMMA LoaderAlways ==
    ASSUME Deployment
    PROVE  Spec => []LoaderInv
<1>1. Init => LoaderInv
  BY LoaderStarts
<1>2. LoaderInv /\ [Next]_vars => LoaderInv'
  BY LoaderKept
<1> QED
  BY <1>1, <1>2, PTL DEF Spec

\* The types of memory, the module and the loader, through every load that fails and every
\* reset (udynlink.c, plc_loader.c:411 to 557).
THEOREM TypesKept ==
    ASSUME Deployment
    PROVE  Spec => []TypeOK
<1>1. LoaderInv => TypeOK
  <2> SUFFICES ASSUME LoaderInv
               PROVE  TypeOK
    OBVIOUS
  <2>1. {"buffer", "flash"} \subseteq DOMAIN mem /\ DOMAIN mem \subseteq {"buffer", "flash"} \cup Blocks
    BY DEF LoaderInv, MemInv
  <2>2. /\ mod.p_header[1] \in Regions /\ mod.p_header[2] \in Nat
        /\ mod.p_ram \in {NULL} \cup (Blocks \X {0}) /\ mod.mode \in {"COPY_ALL", "XIP"}
    BY DEF LoaderInv, TypeInv, ModuleType
  <2>3. /\ overrun \in BOOLEAN /\ plc_initialized \in {0, 1} /\ rel \in Nat
        /\ \A n \in Required : ptrs[n][1] \in Regions
        /\ at \in {"idle", "setup", "copy", "relocate", "fail", "lookup"}
    BY DEF LoaderInv, TypeInv
  <2> QED
    BY <2>1, <2>2, <2>3 DEF TypeOK
<1> QED
  BY <1>1, LoaderAlways, PTL

\* udynlink writes inside the RAM that get_ram_size asked for, for every layout a program
\* can have, and no block is freed twice (udynlink.c, udynlink_load_module).
THEOREM WritesFit ==
    ASSUME Deployment
    PROVE  Spec => []NoOverrun
<1>1. LoaderInv => NoOverrun
  BY DEF LoaderInv, TypeInv, NoOverrun
<1> QED
  BY <1>1, LoaderAlways, PTL

\* Between two operations the heap holds the RAM of the loaded program and nothing else,
\* whatever path a load or an unload took.
THEOREM NothingLeaks ==
    ASSUME Deployment
    PROVE  Spec => []HeapIsModule
<1>1. LoaderInv => HeapIsModule
  <2> SUFFICES ASSUME LoaderInv, at = "idle"
               PROVE  Blocks \cap DOMAIN mem =
                          IF plc_initialized = 1 /\ mod.p_ram # NULL THEN {mod.p_ram[1]} ELSE {}
    BY DEF HeapIsModule
  <2>1. \A b \in Blocks : b # "buffer" /\ b # "flash" /\ NULL # <<b, 0>>
    BY UdynlinkConstants DEF NULL
  <2>2. CASE mod.p_ram = NULL /\ DOMAIN mem = {"buffer", "flash"}
    BY <2>1, <2>2
  <2>3. ASSUME NEW b \in Blocks, mod.p_ram = <<b, 0>>, DOMAIN mem = {"buffer", "flash", b}
        PROVE  /\ plc_initialized = 1 /\ mod.p_ram # NULL
               /\ Blocks \cap DOMAIN mem = {mod.p_ram[1]}
    <3>1. mod.p_ram # NULL /\ mod.p_ram[1] = b
      BY <2>1, <2>3
    <3>2. mod # Free
      BY <3>1, FreeModuleType
    <3>3. plc_initialized = 1
      BY <3>2 DEF LoaderInv, TypeInv, IdleInv
    <3>4. Blocks \cap DOMAIN mem = {b}
      BY <2>1, <2>3
    <3> QED
      BY <3>1, <3>3, <3>4
  <2> QED
    BY <2>2, <2>3 DEF LoaderInv, MemInv
<1> QED
  BY <1>1, LoaderAlways, PTL

-----------------------------------------------------------------------------
(* What a linked program is: its symbols are where their addresses say     *)

LEMMA DataWordPlace ==
    ASSUME Deployment, LoaderInv, NEW i \in Images, NEW k, Linked(mem, mod, i, k), RamSize(mod, i) > 0,
           NEW n \in Int
    PROVE  DataWord(i, n) = <<Block(mod), DataAt(mod, i) + n>>
<1>1. Mode(mod) /\ Linkable(i)
  BY ModeKnown DEF LoaderInv, TypeInv, Deployment
<1>2. mod.p_ram = <<Block(mod), 0>>
  BY <1>1, DataPlace DEF Linked, InPlace
<1>3. PICK start \in Nat : start = DataAt(mod, i)
  BY <1>1, RamLayout
<1>4. start = RamSize(mod, i) - i.bss - i.data
  BY <1>3 DEF DataAt
<1>5. DataWord(i, n) = Plus(mod.p_ram, start + n)
  BY <1>4 DEF DataWord
<1>6. Plus(mod.p_ram, start + n) = <<Block(mod), 0 + (start + n)>>
  BY <1>2 DEF Plus
<1> QED
  BY <1>3, <1>5, <1>6

LEMMA SymbolFound ==
    ASSUME Deployment, LoaderInv, NEW i \in Images, Linked(mem, mod, i, Len(i.rels)),
           NEW s \in DOMAIN i.syms, i.syms[s].type # "name"
    PROVE  /\ IsSymbol(i, i.syms[s], SymValue(mod, i, i.syms[s]))
           /\ SymValue(mod, i, i.syms[s]) =
                  <<SymValue(mod, i, i.syms[s])[1], SymValue(mod, i, i.syms[s])[2]>>
<1>1. Mode(mod) /\ Linkable(i)
  BY ModeKnown DEF LoaderInv, TypeInv, Deployment
<1>2. PICK sym : sym = i.syms[s]
  OBVIOUS
<1>3. PICK a : a = SymValue(mod, i, sym)
  OBVIOUS
<1>4. SymbolFits(i, sym) /\ sym.type # "name"
  BY <1>1, <1>2 DEF Linkable
<1>5. PICK lot, code, data, bss, offset, start, size \in Nat :
          PartsAre(mod, i, lot, code, data, bss, offset, start, size)
  BY <1>1, Parts DEF HasParts
<1>6. /\ lot = i.lot /\ code = i.code /\ data = i.data /\ bss = i.bss /\ offset = CodeOffset(i)
      /\ start = DataAt(mod, i) /\ size = RamSize(mod, i) /\ Size(i) = offset + code + data
  BY <1>5 DEF PartsAre
<1>7. size = start + data + bss
  BY <1>5 DEF PartsAre
<1>8. HasRam(mem, mod, i) /\ InPlace(mem, mod, i)
  BY DEF Linked
<1>9. CASE sym.type = "extern"
  <2>1. a = <<sym.name, 0>>
    BY <1>3, <1>9 DEF SymValue
  <2> QED
    BY <1>2, <1>3, <1>9, <2>1 DEF IsSymbol
<1>10. CASE sym.type \in {"local", "exported"} /\ sym.val \in Nat /\ sym.location = "code" /\ sym.val < i.code
  <2>1. PICK val \in Nat : val = sym.val /\ val < code
    BY <1>6, <1>10
  <2>2. a = Plus(Plus(mod.p_header, offset), val)
    BY <1>3, <1>6, <1>10, <2>1 DEF SymValue, Code
  <2>3. Read(a) = <<"image", i, offset + val>> /\ a = <<a[1], a[2]>>
    <3>1. CASE mod.mode = "XIP"
      <4>1. mod.p_header = <<"flash", 0>> /\ mem["flash"] = Stored(i) /\ "flash" \in DOMAIN mem
        BY <1>8, <3>1 DEF InPlace, LoaderInv, MemInv
      <4>2. a = <<"flash", offset + val>>
        BY <1>5, <2>1, <2>2, <4>1 DEF Plus
      <4>3. \A o \in 0 .. (offset + code + data - 1) :
                o \in DOMAIN Stored(i) /\ Stored(i)[o] = <<"image", i, o>>
        <5>1. \A o \in 0 .. (Size(i) - 1) :
                  o \in DOMAIN Stored(i) /\ Stored(i)[o] = <<"image", i, o>>
          BY <1>1, StoredWords
        <5>2. Size(i) = offset + code + data
          BY <1>6
        <5> QED
          BY <5>1, <5>2
      <4>4. offset + val \in 0 .. (offset + code + data - 1)
        BY <1>5, <2>1
      <4>5. /\ offset + val \in DOMAIN Stored(i)
            /\ Stored(i)[offset + val] = <<"image", i, offset + val>>
        BY <4>3, <4>4
      <4> QED
        BY <4>1, <4>2, <4>5 DEF Read
    <3>2. CASE mod.mode = "COPY_ALL"
      <4>1. /\ mod.p_header = <<Block(mod), lot>> /\ RamSize(mod, i) > 0
            /\ \A o \in 0 .. (offset + code - 1) : mem[Block(mod)][lot + o] = <<"image", i, o>>
        BY <1>1, <1>6, <1>8, <3>2, HeaderPlace DEF InPlace
      <4>2. Block(mod) \in DOMAIN mem /\ DOMAIN mem[Block(mod)] = 0 .. (size - 1)
        BY <1>1, <1>6, <1>8, <4>1, DataPlace
      <4>3. a = <<Block(mod), lot + (offset + val)>>
        BY <1>5, <2>1, <2>2, <4>1 DEF Plus
      <4>4. start = lot + offset + code
        BY <1>5, <3>2 DEF PartsAre
      <4>5. offset + val \in 0 .. (offset + code - 1) /\ lot + (offset + val) \in 0 .. (size - 1)
        BY SMTT(30), <1>5, <1>7, <2>1, <4>4
      <4> QED
        BY <4>1, <4>2, <4>3, <4>5 DEF Read
    <3> QED
      BY <1>1, <3>1, <3>2 DEF Mode
  <2> QED
    BY <1>2, <1>3, <1>6, <1>10, <2>1, <2>3 DEF IsSymbol
<1>11. CASE /\ sym.type \in {"local", "exported"} /\ sym.val \in Nat /\ sym.location = "data"
            /\ sym.val < i.data + i.bss
  <2>1. PICK val \in Nat : val = sym.val /\ val < data + bss
    BY <1>6, <1>11
  <2>2. size > 0 /\ RamSize(mod, i) > 0
    <3>1. size > 0
      BY <1>5, <1>7, <2>1
    <3> QED
      BY <1>6, <3>1
  <2>3. PICK b : b = Block(mod)
    OBVIOUS
  <2>4. /\ b \in DOMAIN mem /\ DOMAIN mem[b] = 0 .. (size - 1)
        /\ Data(mod, i) = <<b, start>>
    BY <1>1, <1>6, <1>8, <2>2, <2>3, DataPlace DEF InPlace
  <2>5. a = <<b, start + val>>
    BY <1>3, <1>11, <2>1, <2>4 DEF SymValue, Plus
  <2>6. start + val \in 0 .. (size - 1)
    BY SMTT(30), <1>5, <1>7, <2>1
  <2>7. Read(a) = mem[b][start + val]
    BY <2>4, <2>5, <2>6 DEF Read
  <2>8. CASE val >= data
    <3>1. val - data \in 0 .. (bss - 1) /\ start + data + (val - data) = start + val
      BY SMTT(30), <1>5, <2>1, <2>8
    <3>2. mem[b][start + data + (val - data)] = <<"bss", i, val - data>>
      BY <1>6, <2>3, <3>1 DEF Linked, BssCleared
    <3>3. Read(a) = <<"bss", i, val - data>>
      BY <2>7, <3>1, <3>2
    <3>4. IsSymbol(i, sym, a)
      BY <1>6, <1>11, <2>1, <2>8, <3>3 DEF IsSymbol
    <3> QED
      BY <1>2, <1>3, <2>5, <3>4
  <2>9. CASE ~(val >= data)
    <3>1. val \in 0 .. (data - 1)
      BY <1>5, <2>1, <2>9
    <3>2. a = DataWord(i, val)
      <4>1. val \in Int
        BY <2>1
      <4>2. DataWord(i, val) = <<Block(mod), DataAt(mod, i) + val>>
        BY <2>2, <4>1, DataWordPlace
      <4> QED
        BY <1>6, <2>3, <2>5, <4>2
    <3>3. \/ Read(a) = <<"image", i, offset + code + val>>
          \/ Read(a)[1] = "ptr" /\ \E n \in 1 .. Len(i.rels) : i.rels[n].at = lot + val
      BY <1>6, <2>3, <2>7, <3>1 DEF Linked, DataCopied
    <3>4. DOMAIN i.rels = 1 .. Len(i.rels)
      BY <1>1, Layout
    <3>5. IsSymbol(i, sym, a)
      BY <1>6, <1>11, <2>1, <2>9, <3>2, <3>3, <3>4 DEF IsSymbol
    <3> QED
      BY <1>2, <1>3, <2>5, <3>5
  <2> QED
    BY <2>8, <2>9
<1> QED
  BY <1>4, <1>9, <1>10, <1>11 DEF SymbolFits

\* The function pointers of a loaded PLC are those of its program, and none of them nor its
\* header is in elf_buffer, which the next file overwrites (plc_loader.c:537).
THEOREM PointersKept ==
    ASSUME Deployment
    PROVE  Spec => []PointersLive
<1>1. LoaderInv => PointersLive
  <2> SUFFICES ASSUME LoaderInv, Loaded
               PROVE  PointersLive
    BY DEF PointersLive
  <2>1. PICK i \in Images : Linked(mem, mod, i, Len(i.rels)) /\ Points(ptrs, mod, i)
    BY DEF LoaderInv, IdleInv, Loaded
  <2>2. HasHeader(mod) /\ Header(mod) = i /\ mod.p_header[1] # "buffer"
    BY <2>1, LinkedHeader
  <2>3. ASSUME NEW n \in Required
        PROVE  ptrs[n][1] # "buffer" /\ \E s \in Named(i, n) : IsSymbol(i, i.syms[s], ptrs[n])
    <3>1. PICK s \in Named(i, n) : ptrs[n] = SymValue(mod, i, i.syms[s])
      BY <2>1 DEF Points
    <3>2. s \in DOMAIN i.syms /\ i.syms[s].name = n
      BY DEF Named
    <3>3. i.syms[s].type = "exported"
      BY <3>2 DEF Deployment, Linkable
    <3>4. ptrs[n][1] # "buffer"
      BY <2>1, <3>1, <3>3, SymbolRegion
    <3>5. IsSymbol(i, i.syms[s], ptrs[n])
      BY <2>1, <3>1, <3>2, <3>3, SymbolFound
    <3> QED
      BY <3>4, <3>5
  <2> QED
    BY <2>2, <2>3 DEF PointersLive
<1> QED
  BY <1>1, LoaderAlways, PTL

\* Every relocation of a loaded program holds the address of what it refers to, where the
\* compiled code looks for it, in RAM and in the flash (udynlink.c, udynlink_load_module).
THEOREM RelocatedRight ==
    ASSUME Deployment
    PROVE  Spec => []LinkedRight
<1>1. LoaderInv => LinkedRight
  <2> SUFFICES ASSUME LoaderInv, Loaded
               PROVE  LinkedRight
    BY DEF LinkedRight
  <2>1. PICK i \in Images : Linked(mem, mod, i, Len(i.rels))
    BY DEF LoaderInv, IdleInv, Loaded
  <2>2. HasHeader(mod) /\ Header(mod) = i
    BY <2>1, LinkedHeader
  <2>3. Mode(mod) /\ Linkable(i) /\ DOMAIN i.rels = 1 .. Len(i.rels) /\ i.lot \in Nat
    BY ModeKnown, Layout DEF LoaderInv, TypeInv, Deployment
  <2>4. ASSUME NEW n \in DOMAIN i.rels, NEW r, r = i.rels[n], NEW w,
               w = Read(IF r.at < i.lot THEN Plus(mod.p_ram, r.at) ELSE DataWord(i, r.at - i.lot))
        PROVE  /\ w[1] = "ptr"
               /\ IF r.abs THEN <<w[2], w[3]>> = DataWord(i, r.sym)
                  ELSE IsSymbol(i, i.syms[r.sym], <<w[2], w[3]>>)
    <3>1. /\ r.abs \in BOOLEAN /\ r.at \in Nat /\ r.sym \in Nat
          /\ ~r.abs => r.sym \in DOMAIN i.syms
          /\ RamSize(mod, i) > 0 /\ Slot(mod, i, r) \in 0 .. (RamSize(mod, i) - 1)
      BY <2>3, <2>4, RelocationPlace
    <3>2. PICK b : b = Block(mod)
      OBVIOUS
    <3>3. /\ b \in DOMAIN mem /\ DOMAIN mem[b] = 0 .. (RamSize(mod, i) - 1)
          /\ mod.p_ram = <<b, 0>> /\ Data(mod, i) = <<b, DataAt(mod, i)>>
      BY <2>1, <2>3, <3>1, <3>2, DataPlace DEF Linked, InPlace
    <3>4. (IF r.at < i.lot THEN Plus(mod.p_ram, r.at) ELSE DataWord(i, r.at - i.lot)) = <<b, Slot(mod, i, r)>>
      <4>1. CASE r.at < i.lot
        BY <3>1, <3>3, <4>1 DEF Plus, Slot
      <4>2. CASE ~(r.at < i.lot)
        <5>1. r.at - i.lot \in Int
          BY <2>3, <3>1
        <5> QED
          BY <2>1, <3>1, <3>2, <4>2, <5>1, DataWordPlace DEF Slot
      <4> QED
        BY <4>1, <4>2
    <3>5. PICK t : t = Target(mod, i, r)
      OBVIOUS
    <3>6. w = <<"ptr", t[1], t[2]>> /\ (r.abs \/ Resolved(i, r.sym))
      <4>1. /\ mem[b][Slot(mod, i, r)] = <<"ptr", t[1], t[2]>>
            /\ r.abs \/ Resolved(i, r.sym)
        BY <2>1, <2>3, <2>4, <3>2, <3>5 DEF Linked, Relocated
      <4>2. PICK slot : slot = Slot(mod, i, r)
        OBVIOUS
      <4>3. w = Read(<<b, slot>>) /\ slot \in DOMAIN mem[b]
        BY <2>4, <3>1, <3>3, <3>4, <4>2
      <4>4. w = mem[b][slot]
        BY <3>3, <4>3 DEF Read
      <4> QED
        BY <4>1, <4>2, <4>4
    <3>7. CASE r.abs
      <4>1. t = <<b, DataAt(mod, i) + r.sym>>
        BY <3>3, <3>5, <3>7 DEF Target, Plus
      <4>2. DataWord(i, r.sym) = <<b, DataAt(mod, i) + r.sym>>
        BY <2>1, <3>1, <3>2, DataWordPlace
      <4> QED
        BY <3>6, <3>7, <4>1, <4>2
    <3>8. CASE ~r.abs
      <4>1. r.sym \in DOMAIN i.syms /\ i.syms[r.sym].type # "name"
        BY <3>1, <3>6, <3>8 DEF Resolved
      <4>2. t = SymValue(mod, i, i.syms[r.sym])
        BY <3>5, <3>8 DEF Target
      <4>3. IsSymbol(i, i.syms[r.sym], t) /\ t = <<t[1], t[2]>>
        BY <2>1, <4>1, <4>2, SymbolFound
      <4>4. w[1] = "ptr" /\ <<w[2], w[3]>> = t
        BY <3>6, <4>3
      <4> QED
        BY <3>8, <4>3, <4>4
    <3> QED
      BY <3>1, <3>7, <3>8
  <2>5. \A n \in DOMAIN i.rels :
            LET r == i.rels[n]
                w == Read(IF r.at < i.lot THEN Plus(mod.p_ram, r.at) ELSE DataWord(i, r.at - i.lot))
            IN  /\ w[1] = "ptr"
                /\ IF r.abs THEN <<w[2], w[3]>> = DataWord(i, r.sym)
                   ELSE IsSymbol(i, i.syms[r.sym], <<w[2], w[3]>>)
    BY <2>4
  <2> QED
    BY <2>2, <2>5 DEF LinkedRight
<1> QED
  BY <1>1, LoaderAlways, PTL
=============================================================================
