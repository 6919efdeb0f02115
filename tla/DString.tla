------------------------------ MODULE DString ------------------------------
(***************************************************************************)
(* common/dstr.c: the buffers of the strings every program is built with.  *)
(* Of a string only its length, the size of its buffer and the byte behind *)
(* its last character matter here: "nul", "other" for anything else, or    *)
(* "outside" when it lies behind the buffer.  The lengths of the C strings *)
(* and memory blocks the callers pass are those of Pieces.                 *)
(*                                                                         *)
(* dncat and dncatcs, which never enlarge the buffer and which no program  *)
(* calls, are not modelled.                                                *)
(***************************************************************************)
EXTENDS Naturals

CONSTANTS
  Strings,    \* dstring objects
  Granule,    \* 64, to which align rounds
  Small,      \* 32, the buffer of dnew and the slack set_size allows
  Pieces,     \* lengths callers pass
  LengthBound \* of a string

ASSUME BufferAssumption ==
  /\ Granule \in Nat \ {0, 1} /\ Small \in Nat \ {0, 1}
  /\ Pieces \subseteq Nat /\ LengthBound \in Nat

VARIABLES
  len,    \* of each string
  size,   \* of its buffer, 0 while the string does not exist
  end     \* the byte at len

dvars == <<len, size, end>>

DInit ==
  /\ len = [s \in Strings |-> 0]
  /\ size = [s \in Strings |-> 0]
  /\ end = [s \in Strings |-> "outside"]

Exists(s) == size[s] > 0

\* ((n >> 6) + 1) << 6
Align(n) == ((n \div Granule) + 1) * Granule

\* set_size: the buffer for n bytes that replace the old ones
SetSize(s, n) ==
  IF size[s] >= Align(n) /\ size[s] <= Align(n) + Small THEN size[s] ELSE Align(n)

\* Mutant: compares with the buffer of an empty string.
AddSizeFromZero(s, n) == IF n <= size[s] THEN size[s] ELSE Align(len[s] + n)

\* add_size: the buffer for n bytes more
AddSize(s, n) == IF len[s] + n <= size[s] THEN size[s] ELSE Align(len[s] + n)

-----------------------------------------------------------------------------
\* string s afterwards: n characters in a buffer of m bytes
Becomes(s, n, m, byte) ==
  /\ n <= LengthBound
  /\ len' = [len EXCEPT ![s] = n]
  /\ size' = [size EXCEPT ![s] = m]
  /\ end' = [end EXCEPT ![s] = byte]

\* put_z
PutZ(n, m) == IF n < m THEN "nul" ELSE "outside"

\* what a copy of src's bytes, the one at its end included, ends with
Ending(src) == IF end[src] = "outside" THEN {"nul", "other"} ELSE {end[src]}

\* dnew leaves the bytes of malloc
New(s) == ~Exists(s) /\ \E byte \in {"nul", "other"} : Becomes(s, 0, Small, byte)

NewCopy(s, src) ==
  /\ ~Exists(s) /\ Exists(src)
  /\ \E byte \in Ending(src) : Becomes(s, len[src], Align(len[src]), byte)

\* dfromc
FromC(s) == ~Exists(s) /\ Becomes(s, 1, Small, PutZ(1, Small))

\* dfromcs, dfrommem, and dsub, which copies a part with dfrommem
From(s, n) == ~Exists(s) /\ Becomes(s, n, Align(n), PutZ(n, Align(n)))

Free(s) ==
  /\ Exists(s)
  /\ len' = [len EXCEPT ![s] = 0]
  /\ size' = [size EXCEPT ![s] = 0]
  /\ end' = [end EXCEPT ![s] = "outside"]

Clear(s) == Exists(s) /\ Becomes(s, 0, size[s], "nul")

\* dcpy
Cpy(s, src) ==
  /\ Exists(s) /\ Exists(src) /\ s # src
  /\ \E byte \in Ending(src) : Becomes(s, len[src], SetSize(s, len[src] + 1), byte)

\* dcpyc: the buffer is asked for one byte and gets two
CpyC(s) == Exists(s) /\ Becomes(s, 1, SetSize(s, 1), PutZ(1, SetSize(s, 1)))

\* dcpycs, dcpymem, dncpy, dncpycs
CpyMem(s, n) ==
  Exists(s) /\ Becomes(s, n, SetSize(s, n + 1), PutZ(n, SetSize(s, n + 1)))

\* dcat
Cat(s, src) ==
  /\ Exists(s) /\ Exists(src) /\ s # src
  /\ \E byte \in Ending(src) :
       Becomes(s, len[s] + len[src], AddSize(s, len[src] + 1), byte)

\* dcatcs
CatCS(s, n) == Exists(s) /\ Becomes(s, len[s] + n, AddSize(s, n + 1), "nul")

\* dcatmem, and dcatc for n = 1: there is not always room for the terminator
CatMem(s, n) ==
  Exists(s) /\ Becomes(s, len[s] + n, AddSize(s, n), PutZ(len[s] + n, AddSize(s, n)))

DNext ==
  \E s \in Strings :
    \/ New(s) \/ FromC(s) \/ Free(s) \/ Clear(s) \/ CpyC(s)
    \/ \E src \in Strings : NewCopy(s, src) \/ Cpy(s, src) \/ Cat(s, src)
    \/ \E n \in Pieces : From(s, n) \/ CpyMem(s, n) \/ CatCS(s, n) \/ CatMem(s, n)

DSpec == DInit /\ [][DNext]_dvars

-----------------------------------------------------------------------------
(* Properties                                                              *)

\* Types of the strings.
DTypeOK ==
  /\ len \in [Strings -> Nat]
  /\ size \in [Strings -> Nat]
  /\ end \in [Strings -> {"nul", "other", "outside"}]

\* dstr.c:35-63,144-243: after any sequence of copies, clears and appends the
\* characters of a string lie inside its buffer, and its terminator lies
\* outside only where an append has filled the buffer to its last byte.
ContentInside ==
  \A s \in Strings : /\ len[s] <= size[s]
                     /\ end[s] = "outside" <=> len[s] = size[s]
=============================================================================
