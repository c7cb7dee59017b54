------------------------------ MODULE Atomics ------------------------------
(***************************************************************************)
(* sync/atomic/atomic.go: typed wrappers of the operations of sync/atomic. *)
(* The operations of sync/atomic are one step each, and so are all methods *)
(* but Float64.Add, which loads and then tries to swap, again and again.   *)
(* Words have W32 and W64 bits.  s.v is the word; s.add[g] are the local   *)
(* variables of goroutine g in Float64.Add.                                *)
(*                                                                         *)
(* ref.x is the value that the caller believes in: an integer that never   *)
(* wraps, a Boolean, or a float.  ref.call is the latest finished call,    *)
(* with what it returned and what it should have returned.                 *)
(***************************************************************************)
EXTENDS Integers, FiniteSets

CONSTANTS Goroutines, W32, W64, Operands, MaxValue, Floats, MaxAdds

VARIABLES s, ref

Idle == [at |-> "idle", n |-> 0, old |-> 0]
NoCall == [op |-> "none", got |-> 0, due |-> 0]
Start(type, v, x) ==
  /\ s = [type |-> type, v |-> v, add |-> [g \in Goroutines |-> Idle]]
  /\ ref = [x |-> x, call |-> NoCall, adds |-> 0]

-----------------------------------------------------------------------------
\* The integers.  A word of w bits, read as a signed or an unsigned number.
Word(w, n) == n % 2^w
Complement(w, n) == 2^w - 1 - Word(w, n)
Read(w, signed, v) == IF signed /\ v >= 2^(w - 1) THEN v - 2^w ELSE v

Finish(v, x, op, got, due) ==
  /\ s' = [s EXCEPT !.v = v]
  /\ ref' = [ref EXCEPT !.x = x, !.call = [op |-> op, got |-> got, due |-> due]]

AddWord(w, n) == Word(w, s.v + n)
\* Unsigned types add the complement of n - 1.
SubWord(w, signed, n) == AddWord(w, IF signed THEN Word(w, -n) ELSE Complement(w, Word(w, n) - 1))

Calls(w, signed) ==
  LET Now == Read(w, signed, s.v)
      Ideal(x) == Read(w, signed, Word(w, x))
      After(v, x, op) == Finish(v, x, op, Read(w, signed, v), Ideal(x))
      Swaps(n, op) == Finish(Word(w, n), n, op, Now, Ideal(ref.x)) IN
  \/ Finish(s.v, ref.x, "Load", Now, Ideal(ref.x))
  \/ \E n \in Operands :
       \/ ref.x + n <= MaxValue /\ After(AddWord(w, n), ref.x + n, "Add")
       \/ ref.x - n >= -MaxValue /\ After(SubWord(w, signed, n), ref.x - n, "Sub")
       \/ Swaps(n, "Swap")
       \/ Finish(Word(w, n), n, "Store", 0, 0)
       \/ \E old \in Operands :
            LET hit == Word(w, old) = s.v IN
            Finish(IF hit THEN Word(w, n) ELSE s.v, IF hit THEN n ELSE ref.x, "CAS", hit, Ideal(old) = Ideal(ref.x))
  \/ ref.x + 1 <= MaxValue /\ After(AddWord(w, 1), ref.x + 1, "Inc")
  \/ ref.x - 1 >= -MaxValue /\ After(SubWord(w, signed, 1), ref.x - 1, "Dec")

Int32 == s.type = "Int32" /\ Calls(W32, TRUE)
Int64 == s.type = "Int64" /\ Calls(W64, TRUE)
Uint32 == s.type = "Uint32" /\ Calls(W32, FALSE)
Uint64 == s.type = "Uint64" /\ Calls(W64, FALSE)
Duration == s.type = "Duration" /\ Calls(W64, TRUE)

-----------------------------------------------------------------------------
\* Bool: a word whose lowest bit counts.
truthy(v) == v % 2 = 1
boolToInt(b) == IF b THEN 1 ELSE 0

Bool ==
  /\ s.type = "Bool"
  /\ \/ Finish(s.v, ref.x, "Load", truthy(s.v), ref.x)
     \/ \E new \in BOOLEAN :
          \/ Finish(boolToInt(new), new, "Store", 0, 0)
          \/ Finish(boolToInt(new), new, "Swap", truthy(s.v), ref.x)
          \/ \E old \in BOOLEAN :
               LET hit == boolToInt(old) = s.v IN
               Finish(IF hit THEN boolToInt(new) ELSE s.v, IF hit THEN new ELSE ref.x, "CAS", hit, old = ref.x)
     \/ LET v == Word(W32, s.v + 1)
        IN  Finish(v, ~ref.x, "Toggle", truthy(Word(W32, v - 1)), ref.x)

-----------------------------------------------------------------------------
\* Float64: the bits of zero and of minus zero differ, and the numbers are equal.
NegativeZero == [n |-> 0, minus |-> TRUE]
NaN == [n |-> MaxValue + 1, minus |-> FALSE]
Float(n) == [n |-> n, minus |-> FALSE]
Equal(a, b) == a.n = b.n /\ a # NaN
Plus(a, b) ==
  CASE NaN \in {a, b} -> NaN
    [] a = NegativeZero /\ b = NegativeZero -> NegativeZero
    [] OTHER -> Float(a.n + b.n)
Values == {Float(n) : n \in Floats} \cup {NegativeZero, NaN}

FloatCAS(old, new) == IF s.v = old THEN new ELSE s.v
FloatCASCall(old) == IF old = NaN /\ s.v = NaN THEN "CAS of NaN"
                     ELSE IF old.n = 0 /\ s.v.n = 0 /\ old # s.v THEN "CAS of the other zero" ELSE "CAS"

FloatAdd(g, n) ==
  /\ s.type = "Float64" /\ s.add[g].at = "idle" /\ ref.adds < MaxAdds
  /\ s' = [s EXCEPT !.add[g] = [at |-> "load", n |-> n, old |-> 0]]
  /\ ref' = [ref EXCEPT !.adds = @ + 1, !.call = NoCall]

FloatAddLoads(g) ==
  /\ s.add[g].at = "load"
  /\ s' = [s EXCEPT !.add[g] = [at |-> "cas", n |-> s.add[g].n, old |-> s.v]]
  /\ ref' = [ref EXCEPT !.call = NoCall]

FloatAddSwaps(g) ==
  LET a == s.add[g]
      new == Plus(a.old, a.n) IN
  /\ a.at = "cas"
  /\ IF s.v = a.old
     THEN /\ s' = [s EXCEPT !.v = new, !.add[g] = Idle]
          /\ ref' = [ref EXCEPT !.x = Plus(@, a.n), !.call = [op |-> "Add", got |-> new, due |-> Plus(ref.x, a.n)]]
     ELSE /\ s' = [s EXCEPT !.add[g].at = "load"]
          /\ ref' = [ref EXCEPT !.call = NoCall]

Float64 ==
  /\ s.type = "Float64"
  /\ \/ Finish(s.v, ref.x, "Load", s.v, ref.x)
     \/ \E new \in Values :
          \/ Finish(new, new, "Store", 0, 0)
          \/ \E old \in Values :
               Finish(FloatCAS(old, new), IF s.v = old THEN new ELSE ref.x,
                      FloatCASCall(old), s.v = old, Equal(old, ref.x))

Init ==
  \/ \E type \in {"Int32", "Int64", "Uint32", "Uint64", "Duration"} : Start(type, 0, 0)
  \/ \E b \in BOOLEAN : Start("Bool", boolToInt(b), b)
  \/ Start("Float64", Float(0), Float(0))

Next ==
  \/ Int32 \/ Int64 \/ Uint32 \/ Uint64 \/ Duration \/ Bool \/ Float64
  \/ \E g \in Goroutines : (\E n \in Values : FloatAdd(g, n)) \/ FloatAddLoads(g) \/ FloatAddSwaps(g)

(***************************************************************************)
(* Every call returns what it would return if calls came one at a time, up *)
(* to the width of the word; in particular no concurrent Float64.Add is    *)
(* lost, though another call may come between its load and its swap.  CAS  *)
(* of a Bool is another matter: Toggle counts on, so a Bool toggled past 1 *)
(* that Load calls false or true has a word that is neither 0 nor 1, and   *)
(* CAS misses there, and only there, although the test says that it should *)
(* swap when old matches.  CAS of a float compares bits: it misses exactly *)
(* the other zero, and it finds NaN.                                       *)
(***************************************************************************)
CallsTakeEffectOnce ==
  LET c == ref.call IN
  /\ IF s.type = "Bool" /\ c.op = "CAS" THEN c.got <=> c.due /\ s.v <= 1
     ELSE c.got # c.due <=> c.op \in {"CAS of NaN", "CAS of the other zero"}
  /\ s.type = "Bool" => truthy(s.v) = ref.x
  /\ s.type = "Float64" => s.v = ref.x
=============================================================================
