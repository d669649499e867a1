----------------------------- MODULE FrameProofs -----------------------------
(***************************************************************************)
(* Calls keep the links, the locals and the saved registers of the         *)
(* functions that wait, for any number of registers, any functions with    *)
(* any number of locals and any stack.                                     *)
(***************************************************************************)
EXTENDS Frame, SequenceTheorems, TLAPS

(***************************************************************************)
(* The inductive invariant.  What an activation c at depth d expects of    *)
(* the memory m is Holds; it looks at no word below the $sp that its       *)
(* prolog has left (Kept), and each activation has been entered below the  *)
(* one before (Ordered).  Chained is what a return relies on to restore    *)
(* the registers of the caller.                                            *)
(***************************************************************************)
ActivationRec == [fn : Function, sp : Int, fp : Int, ra : Value,
                  reg : [Reg -> Value], assigned : SUBSET Nat]

Fits(c) ==
    /\ c.sp <= Top
    /\ Lowest(c.fn, c.sp) >= 0
    /\ c.assigned \subseteq 1 .. NLocals[c.fn]

LinksIn(m, c) == m[c.sp] = c.ra /\ m[c.sp - 1] = Word(c.fp)

LocalsIn(m, c, d) ==
    \A k \in c.assigned : k <= Covered(c.fn) => m[LocalSlot(c.sp - 1, k)] = Local(d, k)

\* The save slot of a register is the word of a local.
SavesIn(m, c) ==
    c.fn # Main => \A i \in Reg : i + 1 \notin c.assigned =>
        m[SaveSlot(EntrySp(c.fn, c.sp), i)] = c.reg[i]

Holds(m, c, d) == LinksIn(m, c) /\ LocalsIn(m, c, d) /\ SavesIn(m, c)

Ordered ==
    \A d, e \in 1 .. Depth : d < e => calls[e].sp < EntrySp(calls[d].fn, calls[d].sp)

Chained ==
    \A d \in 1 .. Depth - 1 :
        /\ calls[d + 1].fp = calls[d].sp - 1
        /\ calls[d + 1].sp + 1 = EntrySp(calls[d].fn, calls[d].sp)

InPlace == running => fp = Current.sp - 1 /\ sp = EntrySp(Current.fn, Current.sp)

IInv ==
    /\ TypeOK
    /\ calls[1].fn = Main
    /\ \A d \in 1 .. Depth : Fits(calls[d]) /\ Holds(mem, calls[d], d)
    /\ Ordered
    /\ Chained
    /\ InPlace

-----------------------------------------------------------------------------
(* Addresses.                                                               *)

LEMMA EntryFacts ==
    ASSUME NEW f \in Function, NEW s \in Int
    PROVE  /\ FrameSize(f) \in Nat /\ FrameSize(f) >= NREG
           /\ f # Main => FrameSize(f) = NREG
           /\ EntrySp(f, s) \in Int /\ EntrySp(f, s) = s - 2 - FrameSize(f)
           /\ NLocals[f] \in Nat
           /\ Lowest(f, s) \in Int
           /\ Lowest(f, s) <= EntrySp(f, s)
           /\ Lowest(f, s) <= s - 1 - NLocals[f]
BY FrameAssumption DEF FrameSize, EntrySp, Lowest

LEMMA ValueFacts ==
    ASSUME NEW a \in Int, NEW b \in Int
    PROVE  /\ Word(a) \in Value /\ Return(a) \in Value
           /\ Local(a, b) \in Value /\ Temp(a, b) \in Value /\ Unknown \in Value
           /\ Word(a)[2] = a
BY DEF Value, Word, Return, Local, Temp, Unknown

\* What the prolog leaves in memory.
LEMMA PrologFacts ==
    ASSUME NEW m \in [Addr -> Value], NEW f \in Function, NEW s \in Int, NEW p \in Int,
           NEW link \in Value, NEW r \in [Reg -> Value],
           s <= Top, Lowest(f, s) >= 0
    PROVE  LET n == gen_func_prolog(m, f, s, p, link, r)
           IN  /\ n \in [Addr -> Value]
               /\ \A a \in Addr : a > s => n[a] = m[a]
               /\ n[s] = link
               /\ n[s - 1] = Word(p)
               /\ \A i \in Reg : n[SaveSlot(EntrySp(f, s), i)] = r[i]
<1> DEFINE bottom == EntrySp(f, s)
           n == gen_func_prolog(m, f, s, p, link, r)
<1>1. /\ bottom \in Int /\ bottom + NREG <= s - 2 /\ bottom >= 0
      /\ s \in Addr /\ s - 1 \in Addr /\ NREG \in Nat
  <2>1. /\ FrameSize(f) \in Nat /\ FrameSize(f) >= NREG /\ NREG \in Nat /\ Top \in Nat
        /\ bottom \in Int /\ bottom = s - 2 - FrameSize(f)
        /\ Lowest(f, s) \in Int /\ Lowest(f, s) <= bottom
    BY EntryFacts, FrameAssumption
  <2> HIDE DEF bottom
  <2>2. bottom >= 0
    BY <2>1
  <2> QED
    BY <2>1, <2>2 DEF Addr
<1> HIDE DEF bottom
<1>2. \A a \in Addr : SavedAt(bottom, a) \in Reg => a <= s - 2
  BY <1>1 DEF SavedAt, Reg, Addr
<1>3. ASSUME NEW i \in Reg
      PROVE  SaveSlot(bottom, i) \in Addr /\ SavedAt(bottom, SaveSlot(bottom, i)) = i
  <2>1. i \in Int /\ 0 <= i /\ i <= NREG - 1 /\ Top \in Nat /\ s <= Top /\ s \in Int
    BY <1>1, FrameAssumption DEF Reg
  <2> QED
    BY <1>1, <2>1 DEF SavedAt, SaveSlot, Addr
<1> USE DEF bottom
<1>4. n = [a \in Addr |->
            CASE SavedAt(bottom, a) \in Reg -> r[SavedAt(bottom, a)]
              [] a = s                      -> link
              [] a = s - 1                  -> Word(p)
              [] OTHER                      -> m[a]]
  BY DEF gen_func_prolog
<1>5. Word(p) \in Value
  BY ValueFacts
<1> HIDE DEF bottom, n
<1>6. n \in [Addr -> Value]
  BY <1>4, <1>5
<1>7. \A a \in Addr : a > s => n[a] = m[a]
  BY <1>1, <1>2, <1>4 DEF Addr
<1>8. n[s] = link /\ n[s - 1] = Word(p)
  BY <1>1, <1>2, <1>4
<1>9. \A i \in Reg : n[SaveSlot(bottom, i)] = r[i]
  <2> SUFFICES ASSUME NEW i \in Reg PROVE n[SaveSlot(bottom, i)] = r[i]
    OBVIOUS
  <2>1. SaveSlot(bottom, i) \in Addr /\ SavedAt(bottom, SaveSlot(bottom, i)) = i
    BY <1>3
  <2>2. ASSUME NEW a \in Addr, SavedAt(bottom, a) \in Reg
        PROVE  n[a] = r[SavedAt(bottom, a)]
    <3>1. a # s /\ a # s - 1
      BY <1>1, <1>2, <2>2 DEF Addr
    <3> QED
      BY <1>4, <2>2, <3>1, Zenon
  <2> QED
    BY <2>1, <2>2
<1> QED
  BY <1>6, <1>7, <1>8, <1>9 DEF n, bottom

\* The words that an activation expects something of.
LEMMA OwnWords ==
    ASSUME NEW c \in ActivationRec, Fits(c)
    PROVE  /\ c.sp \in Addr /\ c.sp - 1 \in Addr
           /\ c.sp - 1 >= EntrySp(c.fn, c.sp)
           /\ \A k \in c.assigned : k <= Covered(c.fn) =>
                 LocalSlot(c.sp - 1, k) \in Addr /\ LocalSlot(c.sp - 1, k) >= EntrySp(c.fn, c.sp)
           /\ \A i \in Reg : /\ SaveSlot(EntrySp(c.fn, c.sp), i) \in Addr
                             /\ SaveSlot(EntrySp(c.fn, c.sp), i) >= EntrySp(c.fn, c.sp)
<1>1. /\ c.fn \in Function /\ c.sp \in Int /\ Top \in Nat /\ NREG \in Nat
      /\ c.assigned \subseteq 1 .. NLocals[c.fn] /\ c.sp <= Top /\ Lowest(c.fn, c.sp) >= 0
  BY FrameAssumption DEF ActivationRec, Fits
<1> DEFINE s == c.sp  f == c.fn
<1>2. /\ FrameSize(f) \in Nat /\ FrameSize(f) >= NREG
      /\ EntrySp(f, s) \in Int /\ EntrySp(f, s) = s - 2 - FrameSize(f)
      /\ NLocals[f] \in Nat /\ EntrySp(f, s) >= 0 /\ s - 1 - NLocals[f] >= 0
  <2>1. /\ FrameSize(f) \in Nat /\ FrameSize(f) >= NREG
        /\ EntrySp(f, s) \in Int /\ EntrySp(f, s) = s - 2 - FrameSize(f)
        /\ NLocals[f] \in Nat /\ Lowest(f, s) \in Int
        /\ Lowest(f, s) <= EntrySp(f, s) /\ Lowest(f, s) <= s - 1 - NLocals[f]
    BY <1>1, EntryFacts
  <2> QED
    BY <1>1, <2>1
<1>3. s \in Addr /\ s - 1 \in Addr /\ s - 1 >= EntrySp(f, s)
  BY <1>1, <1>2 DEF Addr
<1>4. ASSUME NEW k \in c.assigned, k <= Covered(f)
      PROVE  LocalSlot(s - 1, k) \in Addr /\ LocalSlot(s - 1, k) >= EntrySp(f, s)
  <2>1. k \in Int /\ 1 <= k /\ k <= NLocals[f]
    BY <1>1, <1>2
  <2> QED
    BY <1>1, <1>2, <1>4, <2>1 DEF LocalSlot, Covered, Addr
<1>5. ASSUME NEW i \in Reg
      PROVE  SaveSlot(EntrySp(f, s), i) \in Addr /\ SaveSlot(EntrySp(f, s), i) >= EntrySp(f, s)
  BY <1>1, <1>2 DEF SaveSlot, Reg, Addr
<1> QED
  BY <1>3, <1>4, <1>5

\* Memory may change below the $sp of an activation.
LEMMA Kept ==
    ASSUME NEW c \in ActivationRec, Fits(c), NEW d, NEW m, NEW n,
           \A a \in Addr : a >= EntrySp(c.fn, c.sp) => n[a] = m[a],
           Holds(m, c, d)
    PROVE  Holds(n, c, d)
<1>1. c.sp \in Int /\ c.fn \in Function
  BY DEF ActivationRec
<1>2. EntrySp(c.fn, c.sp) \in Int /\ c.sp >= EntrySp(c.fn, c.sp)
  BY <1>1, EntryFacts, FrameAssumption
<1>3. LinksIn(n, c)
  BY <1>2, OwnWords DEF Holds, LinksIn
<1>4. LocalsIn(n, c, d)
  BY OwnWords DEF Holds, LocalsIn
<1>5. SavesIn(n, c)
  BY OwnWords DEF Holds, SavesIn
<1> QED
  BY <1>3, <1>4, <1>5 DEF Holds

\* The activations.
LEMMA CallsFacts ==
    ASSUME TypeOK
    PROVE  /\ calls \in Seq(ActivationRec)
           /\ Depth \in Nat \ {0}
           /\ \A d \in 1 .. Depth : calls[d] \in ActivationRec
           /\ Current = calls[Depth] /\ Current \in ActivationRec
<1>1. calls \in Seq(ActivationRec) /\ Depth > 0
  BY DEF TypeOK, ActivationRec
<1>2. Depth \in Nat \ {0} /\ Current = calls[Depth]
  BY <1>1 DEF Depth, Current, Last
<1>3. \A d \in 1 .. Depth : calls[d] \in ActivationRec
  BY <1>1, ElementOfSeq DEF Depth
<1> QED
  BY <1>1, <1>2, <1>3

-----------------------------------------------------------------------------
LEMMA InitIInv == Init => IInv
<1> SUFFICES ASSUME Init PROVE IInv
  OBVIOUS
<1> DEFINE zero == [i \in Reg |-> Unknown]
           blank == [a \in Addr |-> Unknown]
           c == Activation(Main, Top, Top, Return(0), zero)
<1>1. /\ Main \in Function /\ Top \in Int /\ Top <= Top /\ Top \in Nat
      /\ Unknown \in Value /\ Return(0) \in Value
  BY FrameAssumption, ValueFacts
<1>2. blank \in [Addr -> Value] /\ zero \in [Reg -> Value]
  BY <1>1
<1>3. /\ Lowest(Main, Top) >= 0
      /\ mem = gen_func_prolog(blank, Main, Top, Top, Return(0), zero)
      /\ sp = EntrySp(Main, Top) /\ fp = Top - 1 /\ ra = Return(0) /\ reg = zero
      /\ calls = <<c>> /\ running = TRUE
  BY DEF Init
<1> HIDE DEF zero, blank
<1>4. mem \in [Addr -> Value] /\ mem[Top] = Return(0) /\ mem[Top - 1] = Word(Top)
  BY <1>1, <1>2, <1>3, PrologFacts
<1>5. c = [fn |-> Main, sp |-> Top, fp |-> Top, ra |-> Return(0), reg |-> zero, assigned |-> {}]
  BY DEF Activation
<1>6. c \in ActivationRec
  BY <1>1, <1>2, <1>5 DEF ActivationRec
<1> HIDE DEF c
<1>7. calls \in Seq(ActivationRec) /\ Depth = 1 /\ Current = c /\ calls[1] = c
  BY <1>3, <1>6 DEF Depth, Current, Last
<1>8. TypeOK
  <2>1. sp \in Int /\ fp \in Int /\ running \in BOOLEAN
    BY <1>1, <1>3, EntryFacts
  <2>2. calls \in Seq([fn : Function, sp : Int, fp : Int, ra : Value,
                      reg : [Reg -> Value], assigned : SUBSET Nat])
    BY <1>7 DEF ActivationRec
  <2> QED
    BY <1>1, <1>2, <1>3, <1>4, <1>7, <2>1, <2>2 DEF TypeOK
<1>9. Fits(c) /\ Holds(mem, c, 1)
  BY <1>1, <1>3, <1>4, <1>5 DEF Fits, Holds, LinksIn, LocalsIn, SavesIn
<1>10. Ordered /\ Chained
  BY <1>7 DEF Ordered, Chained
<1>11. InPlace
  BY <1>3, <1>5, <1>7 DEF InPlace
<1> QED
  BY <1>5, <1>7, <1>8, <1>9, <1>10, <1>11 DEF IInv

-----------------------------------------------------------------------------
(* The steps.  Activations that were there before keep what they expect     *)
(* when memory changes only below the word b.                               *)

LEMMA OthersKept ==
    ASSUME IInv, NEW n \in [Addr -> Value], NEW b \in Int,
           NEW d \in 1 .. Depth,
           b <= EntrySp(calls[d].fn, calls[d].sp),
           \A a \in Addr : a >= b => n[a] = mem[a]
    PROVE  Holds(n, calls[d], d)
<1>1. calls[d] \in ActivationRec /\ Fits(calls[d]) /\ Holds(mem, calls[d], d)
  BY CallsFacts DEF IInv
<1>2. EntrySp(calls[d].fn, calls[d].sp) \in Int
  BY <1>1, EntryFacts DEF ActivationRec
<1>3. \A a \in Addr : a >= EntrySp(calls[d].fn, calls[d].sp) => n[a] = mem[a]
  BY <1>2 DEF Addr
<1> QED
  BY <1>1, <1>3, Kept

LEMMA AssignIInv ==
    ASSUME IInv, NEW k \in 1 .. Top, Assign(k)
    PROVE  IInv'
<1> DEFINE D == Depth
           c == calls[D]
           e == [c EXCEPT !.assigned = @ \cup {k}]
           slot == LocalSlot(fp, k)
<1>1. /\ running /\ k \in 1 .. NLocals[c.fn] /\ k \in Nat /\ k >= 1
      /\ mem' = [mem EXCEPT ![slot] = Local(D, k)]
      /\ calls' = [calls EXCEPT ![D] = e]
      /\ sp' = sp /\ fp' = fp /\ ra' = ra /\ reg' = reg /\ running' = running
  BY CallsFacts, FrameAssumption DEF Assign, Current, Last, Depth, IInv, TypeOK
<1>2. /\ TypeOK /\ calls \in Seq(ActivationRec) /\ D \in Nat \ {0}
      /\ \A d \in 1 .. D : calls[d] \in ActivationRec
      /\ Current = c /\ c \in ActivationRec
  BY CallsFacts DEF IInv
<1>3. /\ Fits(c) /\ Holds(mem, c, D) /\ fp = c.sp - 1 /\ sp = EntrySp(c.fn, c.sp)
      /\ c.fn \in Function /\ c.sp \in Int
  <2>1. Fits(c) /\ Holds(mem, c, D)
    BY <1>2 DEF IInv
  <2>2. fp = c.sp - 1 /\ sp = EntrySp(c.fn, c.sp)
    BY <1>1, <1>2 DEF IInv, InPlace
  <2> QED
    BY <1>2, <2>1, <2>2 DEF ActivationRec
<1>4. e \in ActivationRec /\ e.fn = c.fn /\ e.sp = c.sp /\ e.fp = c.fp /\ e.ra = c.ra
      /\ e.reg = c.reg /\ e.assigned = c.assigned \cup {k}
  BY <1>1, <1>2 DEF ActivationRec
<1> HIDE DEF e, c, D
<1>5. /\ calls' \in Seq(ActivationRec) /\ Depth' = D /\ calls'[D] = e
      /\ \A d \in 1 .. D : d # D => calls'[d] = calls[d]
      /\ Current' = e
  BY <1>1, <1>2, <1>4 DEF Depth, Current, Last, D
<1>6. slot \in Addr /\ slot < fp /\ slot \in Int
  <2>1. /\ NLocals[c.fn] \in Nat /\ c.sp - 1 - NLocals[c.fn] >= 0 /\ c.sp <= Top
    BY <1>3, EntryFacts, SMTT(30) DEF Fits
  <2> QED
    BY <1>1, <1>3, <2>1, FrameAssumption DEF LocalSlot, Addr
<1> HIDE DEF slot
<1>7. mem' \in [Addr -> Value] /\ mem'[slot] = Local(D, k)
      /\ \A a \in Addr : a # slot => mem'[a] = mem[a]
  BY <1>1, <1>2, <1>6, ValueFacts DEF TypeOK
<1>8. TypeOK'
  BY <1>1, <1>2, <1>5, <1>7 DEF TypeOK, ActivationRec
<1>9. Fits(e)
  BY <1>1, <1>3, <1>4 DEF Fits
<1>10. Holds(mem', e, D)
  <2>1. /\ c.sp \in Addr /\ c.sp - 1 \in Addr
        /\ \A j \in c.assigned : j <= Covered(c.fn) => LocalSlot(c.sp - 1, j) \in Addr
        /\ \A i \in Reg : SaveSlot(EntrySp(c.fn, c.sp), i) \in Addr
    BY <1>2, <1>3, OwnWords
  <2>2. LinksIn(mem', e)
    BY <1>3, <1>4, <1>6, <1>7, <2>1 DEF Holds, LinksIn
  <2>3. LocalsIn(mem', e, D)
    <3> SUFFICES ASSUME NEW j \in e.assigned, j <= Covered(e.fn)
                 PROVE  mem'[LocalSlot(e.sp - 1, j)] = Local(D, j)
      BY DEF LocalsIn
    <3>1. CASE j = k
      BY <1>3, <1>4, <1>7, <3>1 DEF slot
    <3>2. CASE j # k
      <4>1. j \in c.assigned /\ j \in Int
        BY <1>2, <1>4, <3>2 DEF ActivationRec
      <4>2. LocalSlot(c.sp - 1, j) # slot
        BY <1>1, <1>3, <3>2, <4>1 DEF LocalSlot, slot
      <4>3. mem[LocalSlot(c.sp - 1, j)] = Local(D, j)
        BY <1>3, <1>4, <4>1 DEF Holds, LocalsIn
      <4> QED
        BY <1>4, <1>7, <2>1, <4>1, <4>2, <4>3
    <3> QED
      BY <3>1, <3>2
  <2>4. SavesIn(mem', e)
    <3> SUFFICES ASSUME e.fn # Main, NEW i \in Reg, i + 1 \notin e.assigned
                 PROVE  mem'[SaveSlot(EntrySp(e.fn, e.sp), i)] = e.reg[i]
      BY DEF SavesIn
    <3>1. i \in Int /\ NREG \in Int /\ i + 1 # k /\ i + 1 \notin c.assigned
      BY <1>4, FrameAssumption DEF Reg
    <3>2. SaveSlot(EntrySp(c.fn, c.sp), i) = c.sp - 2 - i
      <4>1. EntrySp(c.fn, c.sp) = c.sp - 2 - NREG
        BY <1>3, <1>4, EntryFacts
      <4> QED
        BY <1>3, <3>1, <4>1 DEF SaveSlot
    <3>3. c.sp - 2 - i # slot
      BY <1>1, <1>3, <3>1 DEF LocalSlot, slot
    <3>4. mem[SaveSlot(EntrySp(c.fn, c.sp), i)] = c.reg[i]
      BY <1>3, <1>4, <3>1 DEF Holds, SavesIn
    <3> QED
      BY <1>4, <1>7, <2>1, <3>2, <3>3, <3>4
  <2> QED
    BY <2>2, <2>3, <2>4 DEF Holds
<1>11. ASSUME NEW d \in 1 .. D PROVE Fits(calls'[d]) /\ Holds(mem', calls'[d], d)
  <2>1. CASE d = D
    BY <1>5, <1>9, <1>10, <2>1
  <2>2. CASE d # D
    <3>1. d < D
      BY <1>2, <2>2
    <3>2. c.sp < EntrySp(calls[d].fn, calls[d].sp)
      BY <1>2, <3>1 DEF IInv, Ordered, c, D
    <3>3. EntrySp(calls[d].fn, calls[d].sp) \in Int
      BY <1>2, EntryFacts DEF ActivationRec
    <3>4. \A a \in Addr : a >= c.sp => mem'[a] = mem[a]
      BY <1>3, <1>6, <1>7 DEF Addr
    <3>5. Holds(mem', calls[d], d)
      BY <1>3, <1>7, <3>2, <3>3, <3>4, OthersKept DEF D
    <3>6. Fits(calls[d])
      BY DEF IInv, D
    <3> QED
      BY <1>5, <2>2, <3>5, <3>6
  <2> QED
    BY <2>1, <2>2
<1>12. \A d \in 1 .. D : /\ calls'[d].fn = calls[d].fn /\ calls'[d].sp = calls[d].sp
                         /\ calls'[d].fp = calls[d].fp
  BY <1>4, <1>5 DEF c
<1>13. Ordered' /\ Chained'
  <2>1. \A d, g \in 1 .. D : d < g => calls[g].sp < EntrySp(calls[d].fn, calls[d].sp)
    BY DEF IInv, Ordered, D
  <2>2. \A d \in 1 .. D - 1 : /\ calls[d + 1].fp = calls[d].sp - 1
                             /\ calls[d + 1].sp + 1 = EntrySp(calls[d].fn, calls[d].sp)
    BY DEF IInv, Chained, D
  <2>3. \A d \in 1 .. D - 1 : d \in 1 .. D /\ d + 1 \in 1 .. D
    BY <1>2
  <2>4. Ordered'
    BY <1>5, <1>12, <2>1 DEF Ordered
  <2>5. Chained'
    BY <1>5, <1>12, <2>2, <2>3 DEF Chained
  <2> QED
    BY <2>4, <2>5
<1>14. InPlace'
  BY <1>1, <1>3, <1>4, <1>5 DEF InPlace
<1>15. calls'[1].fn = Main
  BY <1>2, <1>12 DEF IInv
<1> QED
  BY <1>5, <1>8, <1>11, <1>13, <1>14, <1>15 DEF IInv

\* What the epilog of the current function loads.
Returned(c) ==
    /\ gen_func_epilog(mem, sp) \in [Reg -> Value]
    /\ mem[fp + 1] = c.ra /\ c.ra \in Value
    /\ mem[fp][2] = c.fp /\ c.fp \in Int
    /\ fp = c.sp - 1 /\ fp \in Int
    /\ sp = EntrySp(c.fn, c.sp)

LEMMA ReturnFacts ==
    ASSUME IInv, running
    PROVE  Returned(Current)
<1> DEFINE c == Current
<1>1. TypeOK /\ c \in ActivationRec /\ c = calls[Depth] /\ Depth \in 1 .. Depth
  BY CallsFacts DEF IInv
<1>2. Fits(c) /\ Holds(mem, c, Depth)
  BY <1>1 DEF IInv
<1>3. fp = c.sp - 1 /\ sp = EntrySp(c.fn, c.sp)
  BY DEF IInv, InPlace
<1>4. /\ c.sp \in Int /\ c.fp \in Int /\ c.ra \in Value /\ c.fn \in Function
      /\ mem \in [Addr -> Value]
  BY <1>1 DEF ActivationRec, TypeOK
<1> HIDE DEF c
<1>5. mem[c.sp] = c.ra /\ mem[c.sp - 1] = Word(c.fp) /\ Word(c.fp)[2] = c.fp
  BY <1>2, <1>4, ValueFacts DEF Holds, LinksIn
<1>6. fp + 1 = c.sp /\ fp \in Int
  BY <1>3, <1>4
<1>7. gen_func_epilog(mem, sp) \in [Reg -> Value]
  BY <1>1, <1>2, <1>3, <1>4, OwnWords DEF gen_func_epilog
<1>8. Returned(c)
  BY <1>3, <1>4, <1>5, <1>6, <1>7 DEF Returned
<1> QED
  BY <1>8 DEF c

LEMMA ComputeIInv ==
    ASSUME IInv, NEW i \in Reg, Compute(i)
    PROVE  IInv'
<1>1. /\ reg' = [reg EXCEPT ![i] = Temp(Depth, i)]
      /\ mem' = mem /\ sp' = sp /\ fp' = fp /\ ra' = ra /\ calls' = calls /\ running' = running
  BY DEF Compute
<1>2. reg' \in [Reg -> Value]
  <2>1. i \in Int /\ Depth \in Int /\ reg \in [Reg -> Value]
    BY CallsFacts, FrameAssumption DEF IInv, TypeOK, Reg
  <2> QED
    BY <1>1, <2>1, ValueFacts
<1>3. TypeOK'
  BY <1>1, <1>2 DEF IInv, TypeOK, Depth
<1> QED
  BY <1>1, <1>3 DEF IInv, Depth, Ordered, Chained, InPlace, Current

LEMMA ExitIInv ==
    ASSUME IInv, MainExits
    PROVE  IInv'
<1> DEFINE c == Current
<1>1. /\ reg' = gen_func_epilog(mem, sp) /\ ra' = mem[fp + 1] /\ sp' = fp + 1 /\ fp' = mem[fp][2]
      /\ mem' = mem /\ calls' = calls /\ running' = FALSE /\ running
  BY DEF MainExits
<1>2. Returned(c)
  BY <1>1, ReturnFacts DEF Returned
<1>3. TypeOK'
  <2>1. /\ sp' \in Int /\ fp' \in Int /\ ra' \in Value /\ reg' \in [Reg -> Value]
        /\ running' \in BOOLEAN
    <3>1. fp \in Int /\ mem[fp + 1] \in Value /\ mem[fp][2] \in Int
      BY <1>2 DEF Returned
    <3>2. gen_func_epilog(mem, sp) \in [Reg -> Value]
      BY <1>2 DEF Returned
    <3>3. running' \in BOOLEAN
      BY <1>1
    <3>4. sp' \in Int
      BY <1>1, <3>1
    <3> QED
      BY <1>1, <3>1, <3>2, <3>3, <3>4, Zenon
  <2> QED
    BY <1>1, <2>1 DEF IInv, TypeOK, Depth
<1> QED
  BY <1>1, <1>3 DEF IInv, Depth, Ordered, Chained, InPlace, Current

LEMMA CallIInv ==
    ASSUME IInv, NEW g \in Function, Call(g)
    PROVE  IInv'
<1> DEFINE D == Depth
           c == Current
           s == sp - 1
           link == Return(Depth)
           e == Activation(g, s, fp, link, reg)
<1>1. /\ running /\ Lowest(g, s) >= 0 /\ ra' = link
      /\ mem' = gen_func_prolog(mem, g, s, fp, link, reg)
      /\ sp' = EntrySp(g, s) /\ fp' = s - 1
      /\ calls' = Append(calls, e)
      /\ reg' = reg /\ running' = running
  BY DEF Call
<1>2. /\ calls \in Seq(ActivationRec) /\ D \in Nat \ {0} /\ D = Len(calls)
      /\ \A d \in 1 .. D : calls[d] \in ActivationRec
      /\ c = calls[D] /\ c \in ActivationRec
      /\ mem \in [Addr -> Value] /\ reg \in [Reg -> Value] /\ fp \in Int /\ sp \in Int
  BY CallsFacts DEF IInv, TypeOK, Depth
<1>3. /\ Fits(c) /\ fp = c.sp - 1 /\ sp = EntrySp(c.fn, c.sp)
      /\ c.fn \in Function /\ c.sp \in Int
  <2>1. D \in 1 .. D
    BY <1>2
  <2>2. Fits(c)
    BY <1>2, <2>1 DEF IInv
  <2>3. fp = c.sp - 1 /\ sp = EntrySp(c.fn, c.sp)
    BY <1>1 DEF IInv, InPlace
  <2> QED
    BY <1>2, <2>2, <2>3 DEF ActivationRec
<1>4. s \in Int /\ s <= Top /\ s < sp
  <2>1. sp <= c.sp /\ c.sp <= Top /\ Top \in Int
    <3>1. EntrySp(c.fn, c.sp) = c.sp - 2 - FrameSize(c.fn) /\ FrameSize(c.fn) \in Nat
      BY <1>3, EntryFacts
    <3> QED
      BY <1>3, <3>1, FrameAssumption DEF Fits
  <2> QED
    BY <1>2, <1>3, <2>1
<1>5. link \in Value
  BY <1>2, ValueFacts
<1>6. e = [fn |-> g, sp |-> s, fp |-> fp, ra |-> link, reg |-> reg, assigned |-> {}]
  BY DEF Activation
<1>7. e \in ActivationRec
  BY <1>2, <1>4, <1>5, <1>6 DEF ActivationRec
<1> HIDE DEF e, c, D, s, link
<1>8. /\ calls' \in Seq(ActivationRec) /\ Depth' = D + 1 /\ calls'[D + 1] = e
      /\ \A d \in 1 .. D : calls'[d] = calls[d]
      /\ Current' = e
  <2>1. Len(calls') = D + 1 /\ calls'[D + 1] = e
    BY <1>1, <1>2, <1>7
  <2> QED
    BY <1>1, <1>2, <1>7, <2>1 DEF Depth, Current, Last
<1>9. /\ mem' \in [Addr -> Value]
      /\ \A a \in Addr : a > s => mem'[a] = mem[a]
      /\ mem'[s] = link
      /\ mem'[s - 1] = Word(fp)
      /\ \A i \in Reg : mem'[SaveSlot(EntrySp(g, s), i)] = reg[i]
  BY <1>1, <1>2, <1>4, <1>5, PrologFacts
<1>10. TypeOK'
  <2>1. sp' \in Int /\ fp' \in Int /\ ra' \in Value /\ reg' \in [Reg -> Value] /\ running' \in BOOLEAN
    BY <1>1, <1>2, <1>4, <1>5, EntryFacts DEF IInv, TypeOK
  <2> QED
    BY <1>2, <1>8, <1>9, <2>1, SMTT(30) DEF TypeOK, ActivationRec
<1>11. Fits(e) /\ Holds(mem', e, D + 1)
  BY <1>1, <1>4, <1>6, <1>9 DEF Fits, Holds, LinksIn, LocalsIn, SavesIn
<1>12. ASSUME NEW d \in 1 .. D
       PROVE  /\ Fits(calls[d]) /\ Holds(mem', calls[d], d)
              /\ sp <= EntrySp(calls[d].fn, calls[d].sp)
  <2>1. Fits(calls[d])
    BY DEF IInv, D
  <2>2. EntrySp(calls[d].fn, calls[d].sp) \in Int
    BY <1>2, EntryFacts DEF ActivationRec
  <2>3. sp <= EntrySp(calls[d].fn, calls[d].sp)
    <3>1. CASE d = D
      BY <1>2, <1>3, <2>2, <3>1
    <3>2. CASE d # D
      <4>1. d < D /\ D \in 1 .. D
        BY <1>2, <3>2
      <4>2. c.sp < EntrySp(calls[d].fn, calls[d].sp)
        BY <1>2, <4>1 DEF IInv, Ordered, D
      <4>3. sp <= c.sp
        <5>1. EntrySp(c.fn, c.sp) = c.sp - 2 - FrameSize(c.fn) /\ FrameSize(c.fn) \in Nat
          BY <1>3, EntryFacts
        <5> QED
          BY <1>3, <5>1
      <4> QED
        BY <1>2, <1>3, <2>2, <4>2, <4>3
    <3> QED
      BY <3>1, <3>2
  <2>4. \A a \in Addr : a >= sp => mem'[a] = mem[a]
    BY <1>2, <1>4, <1>9 DEF Addr
  <2>5. Holds(mem', calls[d], d)
    BY <1>2, <1>9, <2>3, <2>4, OthersKept DEF D
  <2> QED
    BY <2>1, <2>3, <2>5
<1>13. \A d \in 1 .. D + 1 : Fits(calls'[d]) /\ Holds(mem', calls'[d], d)
  <2> SUFFICES ASSUME NEW d \in 1 .. D + 1 PROVE Fits(calls'[d]) /\ Holds(mem', calls'[d], d)
    OBVIOUS
  <2>1. CASE d = D + 1
    BY <1>8, <1>11, <2>1
  <2>2. CASE d # D + 1
    <3>1. d \in 1 .. D
      BY <1>2, <2>2
    <3> QED
      BY <1>8, <1>12, <3>1
  <2> QED
    BY <2>1, <2>2
<1>14. Ordered'
  <2> SUFFICES ASSUME NEW d \in 1 .. D + 1, NEW h \in 1 .. D + 1, d < h
               PROVE  calls'[h].sp < EntrySp(calls'[d].fn, calls'[d].sp)
    BY <1>8 DEF Ordered
  <2>1. d \in 1 .. D /\ calls'[d] = calls[d]
    BY <1>2, <1>8
  <2>2. CASE h = D + 1
    <3>1. EntrySp(calls[d].fn, calls[d].sp) \in Int
      BY <1>2, <2>1, EntryFacts DEF ActivationRec
    <3>2. calls'[h].sp = s /\ sp <= EntrySp(calls[d].fn, calls[d].sp)
      BY <1>6, <1>8, <1>12, <2>1, <2>2
    <3> QED
      BY <1>2, <1>4, <2>1, <3>1, <3>2
  <2>3. CASE h # D + 1
    <3>1. h \in 1 .. D /\ calls'[h] = calls[h]
      BY <1>2, <1>8, <2>3
    <3> QED
      BY <2>1, <3>1 DEF IInv, Ordered, D
  <2> QED
    BY <2>2, <2>3
<1>15. Chained'
  <2> SUFFICES ASSUME NEW d \in 1 .. D
               PROVE  /\ calls'[d + 1].fp = calls'[d].sp - 1
                      /\ calls'[d + 1].sp + 1 = EntrySp(calls'[d].fn, calls'[d].sp)
    BY <1>2, <1>8 DEF Chained
  <2>1. calls'[d] = calls[d]
    BY <1>8
  <2>2. CASE d = D
    <3>1. calls'[d + 1] = e /\ calls'[d] = c
      BY <1>2, <1>8, <2>1, <2>2
    <3>2. s + 1 = sp
      BY <1>2 DEF s
    <3> QED
      BY <1>3, <1>6, <3>1, <3>2
  <2>3. CASE d # D
    <3>1. d \in 1 .. D - 1 /\ d + 1 \in 1 .. D
      BY <1>2, <2>3
    <3>2. calls'[d + 1] = calls[d + 1]
      BY <1>8, <3>1
    <3> QED
      BY <2>1, <3>1, <3>2 DEF IInv, Chained, D
  <2> QED
    BY <2>2, <2>3
<1>16. InPlace' /\ calls'[1].fn = Main
  <2>1. InPlace'
    BY <1>1, <1>6, <1>8 DEF InPlace
  <2>2. 1 \in 1 .. D
    BY <1>2
  <2> QED
    BY <1>8, <2>1, <2>2 DEF IInv
<1> QED
  BY <1>8, <1>10, <1>13, <1>14, <1>15, <1>16 DEF IInv

\* What a return does to the registers.
LEMMA ReturnStep ==
    ASSUME IInv, FunctionReturns
    PROVE  /\ Depth \in Nat /\ Depth > 1
           /\ sp' = Current.sp + 1 /\ fp' = Current.fp /\ ra' = Current.ra
           /\ reg' = gen_func_epilog(mem, sp) /\ reg' \in [Reg -> Value]
           /\ sp = EntrySp(Current.fn, Current.sp)
           /\ Current.fn # Main
           /\ calls' = Front(calls) /\ mem' = mem /\ running' = running
           /\ Current \in ActivationRec /\ Current = calls[Depth]
<1> DEFINE c == Current
<1>1. /\ running /\ c.fn # Main
      /\ reg' = gen_func_epilog(mem, sp) /\ ra' = mem[fp + 1] /\ sp' = fp + 2 /\ fp' = mem[fp][2]
      /\ calls' = Front(calls) /\ mem' = mem /\ running' = running
  BY DEF FunctionReturns
<1>2. Depth \in Nat \ {0} /\ c \in ActivationRec /\ c = calls[Depth] /\ calls[1].fn = Main
  BY CallsFacts DEF IInv
<1>3. Depth > 1
  <2>1. Depth # 1
    BY <1>1, <1>2
  <2> QED
    BY <1>2, <2>1
<1>4. Returned(c)
  BY <1>1, ReturnFacts
<1>5. c.sp \in Int
  BY <1>2 DEF ActivationRec
<1> HIDE DEF c
<1>6. sp' = c.sp + 1 /\ fp' = c.fp /\ ra' = c.ra /\ reg' \in [Reg -> Value] /\ sp = EntrySp(c.fn, c.sp)
  <2>1. fp = c.sp - 1 /\ mem[fp + 1] = c.ra /\ mem[fp][2] = c.fp
        /\ gen_func_epilog(mem, sp) \in [Reg -> Value] /\ sp = EntrySp(c.fn, c.sp)
    BY <1>4 DEF Returned
  <2>2. sp' = c.sp + 1
    BY <1>1, <1>5, <2>1
  <2> QED
    BY <1>1, <2>1, <2>2
<1> QED
  BY <1>1, <1>2, <1>3, <1>6 DEF c

LEMMA ReturnIInv ==
    ASSUME IInv, FunctionReturns
    PROVE  IInv'
<1> DEFINE D == Depth
           c == Current
           b == calls[D - 1]
<1>1. /\ D \in Nat /\ D > 1 /\ c \in ActivationRec /\ c = calls[D]
      /\ sp' = c.sp + 1 /\ fp' = c.fp /\ ra' = c.ra /\ reg' \in [Reg -> Value]
      /\ calls' = Front(calls) /\ mem' = mem /\ running' = running
  BY ReturnStep
<1>2. /\ TypeOK /\ calls \in Seq(ActivationRec) /\ D = Len(calls)
  BY CallsFacts DEF IInv, Depth
<1>3. D - 1 \in Nat /\ D - 1 >= 1 /\ D - 1 \in 1 .. D - 1 /\ (D - 1) + 1 = D /\ 1 .. D - 1 \subseteq 1 .. D
  BY <1>1
<1> HIDE DEF D
<1>4. /\ calls' \in Seq(ActivationRec) /\ Len(calls') = D - 1
      /\ \A d \in 1 .. D - 1 : calls'[d] = calls[d]
  <2>1. calls' = SubSeq(calls, 1, D - 1)
    BY <1>1, <1>2 DEF Front
  <2> QED
    BY <1>1, <1>2, <1>3, <2>1
<1>5. Depth' = D - 1 /\ Current' = b
  BY <1>3, <1>4 DEF Depth, Current, Last
<1>6. TypeOK'
  <2>1. sp' \in Int /\ fp' \in Int /\ ra' \in Value
    BY <1>1 DEF ActivationRec
  <2>2. mem' \in [Addr -> Value] /\ running' \in BOOLEAN
    BY <1>1, <1>2 DEF TypeOK
  <2>3. Depth' > 0
    BY <1>3, <1>5
  <2> QED
    BY <1>1, <1>4, <2>1, <2>2, <2>3 DEF TypeOK, ActivationRec
<1>7. \A d \in 1 .. D - 1 : Fits(calls'[d]) /\ Holds(mem', calls'[d], d)
  BY <1>1, <1>3, <1>4 DEF IInv, D
<1>8. Ordered'
  BY <1>3, <1>4, <1>5 DEF IInv, Ordered, D
<1>9. Chained'
  <2> SUFFICES ASSUME NEW d \in 1 .. (D - 1) - 1
               PROVE  /\ calls'[d + 1].fp = calls'[d].sp - 1
                      /\ calls'[d + 1].sp + 1 = EntrySp(calls'[d].fn, calls'[d].sp)
    BY <1>5 DEF Chained
  <2>1. d \in 1 .. D - 1 /\ d + 1 \in 1 .. D - 1
    BY <1>3
  <2>2. calls'[d] = calls[d] /\ calls'[d + 1] = calls[d + 1]
    BY <1>4, <2>1
  <2> QED
    BY <2>1, <2>2 DEF IInv, Chained, D
<1>10. c.fp = b.sp - 1 /\ c.sp + 1 = EntrySp(b.fn, b.sp)
  BY <1>1, <1>3 DEF IInv, Chained, D
<1>11. InPlace'
  BY <1>1, <1>5, <1>10 DEF InPlace
<1>12. calls'[1].fn = Main
  <2>1. 1 \in 1 .. D - 1
    BY <1>3
  <2> QED
    BY <1>4, <2>1 DEF IInv
<1> QED
  BY <1>5, <1>6, <1>7, <1>8, <1>9, <1>11, <1>12 DEF IInv

-----------------------------------------------------------------------------
LEMMA NextIInv == IInv /\ [Next]_vars => IInv'
<1> SUFFICES ASSUME IInv, [Next]_vars PROVE IInv'
  OBVIOUS
<1>1. CASE \E k \in 1 .. Top : Assign(k)
  BY <1>1, AssignIInv
<1>2. CASE \E i \in Reg : Compute(i)
  BY <1>2, ComputeIInv
<1>3. CASE \E g \in Function : Call(g)
  BY <1>3, CallIInv
<1>4. CASE FunctionReturns
  BY <1>4, ReturnIInv
<1>5. CASE MainExits
  BY <1>5, ExitIInv
<1>6. CASE UNCHANGED vars
  BY <1>6 DEF vars, IInv, TypeOK, Depth, Ordered, Chained, InPlace, Current
<1> QED
  BY <1>1, <1>2, <1>3, <1>4, <1>5, <1>6 DEF Next

LEMMA Invariance == Spec => []IInv
BY InitIInv, NextIInv, PTL DEF Spec

(* Type correctness: registers and stack hold words, and $sp and $fp are    *)
(* addresses, for any program.                                              *)
THEOREM TypeCorrect == Spec => []TypeOK
<1>1. IInv => TypeOK
  BY DEF IInv
<1> QED
  BY <1>1, Invariance, PTL

(* The return address and the frame pointer that gen_func_prolog stores are *)
(* never overwritten, however many locals the functions have, although the  *)
(* size of a frame is the same for all.                                     *)
THEOREM LinksSurvive == Spec => []LinksKept
<1>1. IInv => LinksKept
  <2> SUFFICES ASSUME IInv PROVE LinksKept
    OBVIOUS
  <2>1. \A d \in 1 .. Depth : mem[calls[d].sp] = calls[d].ra /\ mem[calls[d].sp - 1] = Word(calls[d].fp)
    BY DEF IInv, Holds, LinksIn
  <2> QED
    BY <2>1 DEF IInv, InPlace, LinksKept
<1> QED
  BY <1>1, Invariance, PTL

(* The first NREG + 1 locals of a function, one more in main, survive its   *)
(* calls, whatever is called.                                               *)
THEOREM LocalsSurvive == Spec => []LocalsKept
<1>1. IInv => LocalsKept
  <2> SUFFICES ASSUME IInv, NEW d \in 1 .. Depth PROVE LocalsIn(mem, calls[d], d)
    BY DEF LocalsKept, LocalsIn
  <2> QED
    BY DEF IInv, Holds
<1> QED
  BY <1>1, Invariance, PTL

(* A return restores $sp, $fp and $ra of the caller, and each register      *)
(* whose save slot is not the word of an assigned local.                    *)
THEOREM ReturnsRestore == Spec => CallPreserves
<1> DEFINE Restores ==
      FunctionReturns =>
          /\ sp' = Current.sp + 1
          /\ fp' = Current.fp
          /\ ra' = Current.ra
          /\ \A i \in Reg : i + 1 \notin Current.assigned => reg'[i] = Current.reg[i]
<1>1. IInv /\ [Next]_vars => [Restores]_vars
  <2> SUFFICES ASSUME IInv, FunctionReturns, NEW i \in Reg, i + 1 \notin Current.assigned
               PROVE  reg'[i] = Current.reg[i]
    BY ReturnStep
  <2>1. /\ reg' = gen_func_epilog(mem, sp) /\ sp = EntrySp(Current.fn, Current.sp)
        /\ Current.fn # Main /\ Current = calls[Depth] /\ Depth \in 1 .. Depth
    BY ReturnStep
  <2>2. SavesIn(mem, Current)
    BY <2>1 DEF IInv, Holds
  <2>3. mem[SaveSlot(EntrySp(Current.fn, Current.sp), i)] = Current.reg[i]
    BY <2>1, <2>2 DEF SavesIn
  <2> QED
    BY <2>1, <2>3 DEF gen_func_epilog
<1> QED
  BY <1>1, Invariance, PTL DEF Spec, CallPreserves
=============================================================================
