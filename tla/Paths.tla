------------------------------- MODULE Paths -------------------------------
(***************************************************************************)
(* Path names: calc_path of the memory manager (servers/mm/proxy.c), which *)
(* makes every path a process gives absolute and plain, and the helpers of *)
(* lib/libvfs; each against a reference.  A path is a sequence of          *)
(* characters, "/" and "." among them.                                     *)
(***************************************************************************)
EXTENDS Integers, SequencesExt, FiniteSetsExt

CONSTANTS
  PathText,      \* paths that are given
  WorkDir,       \* working directories: absolute and plain
  PathSize       \* sizes of the buffer

VARIABLES kind, impl, ideal, got, want

-----------------------------------------------------------------------------
(* calc_path; s is [w, rest]: what has been written and the room left         *)

Short == <<"insufficient buffer">>
BadPath == <<"bad path">>

CopyPath(wd, size) == IF Len(wd) > size THEN Short ELSE wd

\* omit_previous_entry: back to the '/' before the last entry
OmitPreviousEntry(s) ==
  LET p == Max({i \in 1 .. Len(s.w) - 2 : s.w[i] = "/"})
      len == Len(s.w) - p
  IN [w |-> SubSeq(s.w, 1, p), rest |-> s.rest + len]

\* The end: a '/' behind the last entry goes.
EndOfSrc(s) == IF Len(s.w) > 1 /\ Last(s.w) = "/" THEN Front(s.w) ELSE s.w

\* An entry is copied with the '/' behind it.
RECURSIVE Entries(_, _, _)
RECURSIVE CopyEntry(_, _, _)
CopyEntry(s, src, r) ==
  IF r > Len(src) THEN EndOfSrc(s)
  ELSE IF s.rest <= 0 THEN Short
  ELSE LET t == [w |-> Append(s.w, src[r]), rest |-> s.rest - 1]
       IN IF src[r] = "/" THEN Entries(t, src, r + 1) ELSE CopyEntry(t, src, r + 1)

Entries(s, src, r) ==
  LET at(k) == IF r + k > Len(src) THEN "NUL" ELSE src[r + k]
  IN CASE at(0) = "NUL" -> EndOfSrc(s)
       [] at(0) = "/" -> Entries(s, src, r + 1)
       [] at(0) = "." /\ at(1) = "NUL" -> EndOfSrc(s)
       [] at(0) = "." /\ at(1) = "/" -> Entries(s, src, r + 2)
       [] at(0) = "." /\ at(1) = "." /\ at(2) \in {"NUL", "/"} ->
            IF Len(s.w) <= 1 THEN BadPath
            ELSE IF at(2) = "NUL" THEN EndOfSrc(OmitPreviousEntry(s))
            ELSE Entries(OmitPreviousEntry(s), src, r + 3)
       [] OTHER -> CopyEntry(s, src, r)

CalcPath(wd, src, size) ==
  LET dir == CopyPath(wd, size - 1)
      rest == size - 1 - Len(dir)
  IN IF size < 2 THEN Short
     ELSE IF src = << >> THEN BadPath
     ELSE IF src[1] = "/" THEN Entries([w |-> <<"/">>, rest |-> size - 2], src, 2)
     ELSE IF dir = << >> THEN BadPath
     ELSE IF dir = Short THEN Short
     ELSE IF Last(dir) = "/" THEN Entries([w |-> dir, rest |-> rest], src, 1)
     ELSE IF rest <= 0 THEN Short
     ELSE Entries([w |-> Append(dir, "/"), rest |-> rest - 1], src, 1)

-----------------------------------------------------------------------------
(* lib/libvfs *)

IsValidName(name) ==
  /\ name \notin {<< >>, <<".">>, <<".", ".">>}
  /\ \A i \in DOMAIN name : name[i] # "/"

\* vfs_split_path: the last name, and the path of its parent unless there is none
SplitPath(path) ==
  LET head == SelectInSeq(path, LAMBDA c : c # "/")
      rest == IF head = 0 THEN << >> ELSE SubSeq(path, head, Len(path))
      last == SelectLastInSeq(rest, LAMBDA c : c = "/")
  IN [parent |-> SubSeq(rest, 1, last - 1), name |-> SubSeq(rest, last + 1, Len(rest))]

-----------------------------------------------------------------------------
(* References: a path is the names between its slashes *)

Ascending(S) == [k \in 1 .. Cardinality(S) |-> CHOOSE x \in S : Cardinality({y \in S : y < x}) = k - 1]

Names(path) ==
  LET cuts == Ascending({0, Len(path) + 1} \cup {i \in DOMAIN path : path[i] = "/"})
  IN SelectSeq([k \in 1 .. Len(cuts) - 1 |-> SubSeq(path, cuts[k] + 1, cuts[k + 1] - 1)],
               LAMBDA n : n \notin {<< >>, <<".">>})

\* Every ".." takes the name before it away; at the root it can not.
RECURSIVE Resolve(_)
Resolve(names) ==
  LET up == {i \in DOMAIN names : names[i] = <<".", ".">>}
      i == Min(up)
  IN IF up = {} THEN names
     ELSE IF i = 1 THEN <<BadPath>> ELSE Resolve(RemoveAt(RemoveAt(names, i), i - 1))

Absolute(names) == IF names = << >> THEN <<"/">> ELSE FlattenSeq([k \in DOMAIN names |-> <<"/">> \o names[k]])

\* The most that is written on the way, with the '/' behind an entry that has one
Longest(before, src) ==
  LET names == before \o Names(src)
      ways == Len(before) .. Len(names)
      slash(k) == k < Len(names) \/ src = << >> \/ Last(src) = "/" \/ k = Len(before)
                  \/ Last(Names(src)) = <<".", ".">> \/ ~IsSuffix(Last(Names(src)), src)
      size(k) == LET p == Absolute(Resolve(SubSeq(names, 1, k)))
                 IN IF p = <<"/">> THEN 1 ELSE Len(p) + (IF slash(k) THEN 1 ELSE 0)
  IN Max({size(k) : k \in ways})

Meant(wd, src) ==
  LET before == IF Head(src) = "/" THEN << >> ELSE Names(wd)
      names == Resolve(before \o Names(src))
  IN IF names = <<BadPath>> THEN BadPath ELSE Absolute(names)

\* calc_path gives the path that is meant, and the buffer holds it; when it reports
\* too small a buffer, the longest path on the way and its NUL do not fit.
CalculatePath ==
  \E src \in PathText, wd \in WorkDir, size \in PathSize :
    LET path == CalcPath(wd, src, size)
        before == IF src # << >> /\ Head(src) = "/" THEN << >> ELSE Names(wd)
    IN /\ kind' = "paths end" /\ impl' = <<src, wd, size>> /\ UNCHANGED ideal
       /\ got' = IF path = Short THEN <<Short, size < 2 \/ Longest(before, src) >= size>>
                 ELSE <<path, path = BadPath \/ Len(path) < size>>
       /\ want' = IF path = Short THEN <<Short, TRUE>>
                  ELSE <<IF src = << >> THEN BadPath ELSE Meant(wd, src), TRUE>>

\* The parts of a plain path give it back, and its name is one a file may have.
SplitWorkDir ==
  \E wd \in WorkDir \ {<<"/">>} :
    LET parts == SplitPath(wd)
    IN /\ kind' = "paths end" /\ impl' = <<wd>> /\ UNCHANGED ideal
       /\ got' = <<(IF parts.parent = << >> THEN << >> ELSE <<"/">> \o parts.parent) \o <<"/">> \o parts.name,
                   IsValidName(parts.name), IsValidName(wd)>>
       /\ want' = <<wd, TRUE, FALSE>>

PathsInit == kind = "paths" /\ impl = << >> /\ ideal = << >> /\ got = << >> /\ want = << >>
PathsNext == kind = "paths" /\ (CalculatePath \/ SplitWorkDir)
=============================================================================
