------------------------------- MODULE Fields -------------------------------
(***************************************************************************)
(* What the parsers make of one field of a packet.  A field is a word of   *)
(* a small vocabulary, free of the white space the code strips; the empty  *)
(* word is a field with nothing in it.                                     *)
(***************************************************************************)
EXTENDS Naturals, Sequences, TLC

CONSTANT None            \* Python's None

\* _at: a field that is missing and one that is empty are the same.
At(fields, i) ==
  IF i \in DOMAIN fields /\ fields[i] # "" THEN fields[i] ELSE None

Numerals == "0" :> 0 @@ "00" :> 0 @@ "1" :> 1 @@ "2" :> 2 @@ "5" :> 5 @@
            "9" :> 9 @@ "35" :> 35 @@ "500" :> 500

\* Words with a fraction; nan is a float that is refused.
Decimals == {"34.7", "34.0", "12.6", "-118.2"}

\* Words with a character that no field of the protocol carries.
Unsafe == {"<b>"}

Upper(w) ==
  CASE w = "ka" -> "KA"
    [] w = "f"  -> "F"
    [] OTHER    -> w

IntOf(w) == IF w \in DOMAIN Numerals THEN Numerals[w] ELSE None

\* A number is known by its word.
FloatOf(w) == IF w \in Decimals \cup DOMAIN Numerals THEN w ELSE None

SafeWord(w) == IF w = None \/ w = "" \/ w \in Unsafe THEN None ELSE w
=============================================================================
