------------------------------- MODULE Tokens -------------------------------
(***************************************************************************)
(* What tokenizeForKeywordQuoting (sqldefwrap/quote.go) gives the walkers  *)
(* of package sqldefwrap: a statement as a sequence of words.              *)
(*   "name"    a bare identifier that is a keyword of sqldef's parser;     *)
(*   "plain"   one that is not, one in quotes or brackets, a string, a     *)
(*             type, or a keyword no walker looks for;                     *)
(*   "glob"    an operator sqldef does not know;                           *)
(*   "space"   white space or a comment;                                   *)
(*   "comma"   a comma;                                                    *)
(* any other word stands for itself.                                       *)
(*                                                                         *)
(* A walker is a set of functions that call each other, each of which      *)
(* waits for a word, looks at it and moves past it.  It is modelled as what*)
(* the next word meets: the function it is in, what the function has kept  *)
(* in its loop, and what is written so far.  Every place where one waits   *)
(* is behind a skipWS, or copies what it gets: space is copied, and changes*)
(* nothing.                                                                *)
(*                                                                         *)
(* Every text is one CREATE TABLE statement out of sqlite_master: callers  *)
(* pass nothing else, so there is no IF NOT EXISTS, no CREATE INDEX and no *)
(* parenthesis left open.                                                  *)
(***************************************************************************)
EXTENDS Integers, Sequences

Punctuation == {"(", ")", "comma"}
Leads == {"CONSTRAINT", "PRIMARY", "UNIQUE", "CHECK", "FOREIGN"}
isTableConstraintLead(word) == word \in Leads

(* How a parenthesis changes the depth.                                    *)
Deeper(depth, word) ==
    CASE word = "(" -> depth + 1
      [] word = ")" -> depth - 1
      [] OTHER -> depth
=============================================================================
