------------------------------ MODULE SockOpt -------------------------------
(***************************************************************************)
(* Socket options of src/lwip/socket.py and the translation of the socket  *)
(* module's constants to lwIP's by src/lwip/compat_translate.py.           *)
(*                                                                         *)
(* Constants are looked up by name in both modules; a name only one of     *)
(* them has is left out, and when two names of a level have one value in   *)
(* the socket module the dict keeps the one dir() lists last.              *)
(***************************************************************************)
EXTENDS Integers

CONSTANTS
  Name,       \* the names of lwip.defs
  Rank,       \* the place of each name in dir(defs)
  defs,       \* the values of lwip.defs
  socket,     \* the values of the names the socket module has
  Level,      \* the names of the levels
  LevelRank,  \* their order in _sockopt_translate_table
  OptionsOf   \* the names with the prefix of each level

(* dir(defs) and the table are finite lists: of some names one comes last. *)
Ordered(names, rank) ==
  /\ rank \in [names -> Nat]
  /\ \A m, n \in names : rank[m] = rank[n] => m = n
  /\ \A S \in SUBSET names : S # {} => \E n \in S : \A m \in S : rank[m] <= rank[n]

Constants ==
  /\ Level \subseteq Name
  /\ DOMAIN socket \subseteq Name
  /\ OptionsOf \in [Level -> SUBSET Name]
  /\ Ordered(Name, Rank)
  /\ Ordered(Level, LevelRank)

(* getattr of the socket module does not raise AttributeError. *)
Common(names) == names \cap DOMAIN socket

(* The name a dict keyed by socket values ends up with: the last one. *)
LastWith(names, rank, value) ==
  CHOOSE n \in Common(names) :
    /\ socket[n] = value
    /\ \A m \in Common(names) : socket[m] = value => rank[m] <= rank[n]

HasValue(names, value) == \E n \in Common(names) : socket[n] = value

LevelEntry(level) == LastWith(Level, LevelRank, level)
OptEntry(level, optname) == LastWith(OptionsOf[LevelEntry(level)], Rank, optname)

(* translate_sockopt returns rather than raises ValueError. *)
Translatable(level, optname) ==
  HasValue(Level, level) /\ HasValue(OptionsOf[LevelEntry(level)], optname)

translate_sockopt(level, optname) == <<defs[LevelEntry(level)], defs[OptEntry(level, optname)]>>

-----------------------------------------------------------------------------
(* The arguments of lwip_setsockopt and lwip_getsockopt.                    *)

SizeofInt == 4

(* What a call passes for value and optlen; ffi.buffer refuses what is no   *)
(* cdata, so bytes, bytearray and memoryview raise TypeError.               *)
SetsockoptArg(value, optlen) ==
  IF optlen = "None"
  THEN CASE value = "None" -> "ValueError"
         [] value = "int"  -> <<"int", SizeofInt>>
         [] OTHER          -> "TypeError"
  ELSE IF value = "None" THEN <<"NULL", optlen>> ELSE "ValueError"

=============================================================================
