----------------------------- MODULE MCLibrary -----------------------------
(***************************************************************************)
(* The libraries and the programs for TLC.  A behaviour is of one of them, *)
(* chosen by kind, and calls its operations in any order; each step makes  *)
(* one call and leaves in got what the code answers and in want what its   *)
(* reference answers.                                                      *)
(***************************************************************************)
EXTENDS LibraryInputs

VARIABLES kind, impl, ideal, got, want

vars == <<kind, impl, ideal, got, want>>

Box == INSTANCE Containers WITH Key <- 1 .. 7, Value <- {1, 2}, HashSize <- 2, HashMax <- 3,
  BlockId <- {11, 12, 13}, PerBlock <- 2, MinBlock <- 1, MaxBlock <- 2, MaxNumber <- 7, WordBits <- 3,
  HeapMax <- 5, RingSize <- 6, ReadMax <- 4,
  Message <- {<<"a">>, <<"a", "b">>, <<"b", "a", "b">>, << >>}
Mal == INSTANCE Malloc WITH MinSize <- 2, PageSize <- 8, Initial <- 16, Limit <- 24, Sizes <- {0, 1, 4, 6}
Std == INSTANCE Stdio WITH Byte <- {1, 2}, LF <- 2, BufSize <- 2, DiskMax <- 3, ReadSize <- {1, 2, 3}
Cal == INSTANCE Calendar WITH Day <- DaySet, SampleDay <- SampleDaySet, Year <- YearSet,
  Second <- {0, 59, 3599, 43200, 86399}, Format <- DateFormats, TextSize <- {0, 1, 3, 4, 9, 11, 25, 26}
Txt == INSTANCE Text WITH Numeral <- Numerals, Base <- {0, 1, 8, 10, 16, 36}, LongBits <- 6,
  Byte <- {0, 127, 128, 191, 192, 193, 194, 223, 224, 239, 240, 244, 247, 248},
  Wide <- {0, 1, 127, 128, 191, 2047, 2048, 4095, 65535, 65536, 1114111, 1114112},
  Letter <- {1, 2}, LengthMax <- 5
Rng == INSTANCE RangeCoder WITH ByteBits <- 2, FreqInc <- 4, FreqLimit <- 20, TextMax <- 7,
  RunByte <- {0, 1, 253, 254, 255}, RunMax <- 5
Prt == INSTANCE Printf WITH WordBits <- 8, SigBits <- 3, ExpBits <- 4, Columns <- 3, MinUnits <- 2,
  PrintFormat <- PrintFormats, StrSize <- 0 .. 6, NumberMax <- 1000000000
Srt == INSTANCE Sorting WITH Threshold <- 3, SortKey <- {1, 2, 3}, SortMax <- 7
Scm == INSTANCE Nscm WITH Program <- Procedures \cup Samples, IntBits <- 8, StackSize <- 40, CallMax <- 8,
  FrameMax <- 10, HeapMax <- 60, FileMax <- 3, Lexeme <- Lexemes, Gap <- Gaps, LexemeMax <- 2, PeekSize <- 4
Trm == INSTANCE Terminal WITH Columns <- 3, Lines <- 2, TabColumns <- 2, Letter <- {97}
Cur == INSTANCE Curses WITH Columns <- 3, Lines <- 2, TabColumns <- 2, Letter <- {97}
Ant == INSTANCE Editor WITH BufSize <- 5, EditColumns <- 2, EditLines <- 5, EditTab <- 2,
  Typed <- {97, 10}, AnyWleft <- FALSE
Sh == INSTANCE Shell WITH LineChar <- LineChars, LineMax <- 5, ShellWord <- Words, WordMax <- 4,
  PathEntry <- PathEntries, MaxPathLen <- 6, Variable <- Exports
Pth == INSTANCE Paths WITH PathText <- PathTexts, WorkDir <- WorkDirs, PathSize <- {1, 2, 4, 6, 20}
Key == INSTANCE Keyboard

Init ==
  \/ Box!ContainersInit
  \/ Trm!TerminalInit \/ Cur!CursesInit \/ Ant!EditorInit \/ Sh!ShellInit \/ Pth!PathsInit \/ Key!KeyboardInit
  \/ kind = "malloc" /\ impl = Mal!MallocEmpty /\ ideal = << >> /\ got = << >> /\ want = << >>
  \/ kind = "stdio" /\ impl = Std!Closed /\ ideal = Std!StdioIdeal /\ got = TRUE /\ want = TRUE
  \/ kind \in {"calendar", "text", "sorting", "tokens"} /\ impl = << >> /\ ideal = << >> /\ got = << >> /\ want = << >>
  \/ kind \in {"coder", "runs"} /\ impl = Rng!CoderInit /\ ideal = << >> /\ got = << >> /\ want = << >>
  \/ kind \in {"number", "printf"} /\ impl = Prt!NumberZero /\ ideal = 0 /\ got = << >> /\ want = << >>
  \/ /\ kind = "nscm" /\ ideal = Scm!NscmIdeal /\ got = << >> /\ want = << >>
     /\ \E p \in Procedures \cup Samples : impl = Scm!MachineInit(p)

Next ==
  \/ Box!ContainersNext \/ Mal!MallocNext \/ Std!StdioNext \/ Cal!CalendarNext \/ Txt!TextNext
  \/ Rng!CoderNext \/ Prt!PrintfNext \/ Srt!SortingNext \/ Scm!NscmNext
  \/ Trm!TerminalNext \/ Cur!CursesNext \/ Ant!EditorNext \/ Sh!ShellNext \/ Pth!PathsNext \/ Key!KeyboardNext

Spec == Init /\ [][Next]_vars

(* Properties *)

\* What a library or program answers is what its reference answers: the dates of
\* gmtime, the clock and cal are those found by counting days (Calendar); numbers,
\* multibyte characters and strings are read and copied as C says (Text); what rc
\* compresses is what it restores (RangeCoder); printf writes the decimal expansion
\* (Printf); qsort sorts (Sorting); nscm computes the value an evaluator of the
\* language computes (Nscm); the screen shows what was written to it, through cons.c
\* and through curses (Terminal, Curses); ant's buffer holds the text that was typed
\* (Editor); the shell starts the commands of the line, from the directories of PATH
\* (Shell); a path leads where its components lead (Paths); and the character of a
\* key is that of the keys held (Keyboard).
ResultsMatch == kind # "stdio" => got = want

\* After any sequence of calls a container (lib/libnc/set), the heap of malloc and a
\* stream hold what a set, map, pool, bag or queue, a set of disjoint areas and a
\* file with a position would, and answer the same; and the collector of nscm
\* frees no cell that its machine still uses.
StructuresExact ==
  /\ kind \in Box!Kinds => Box!ContainerExact
  /\ Mal!HeapExact
  /\ Std!StreamExact
  /\ Scm!CellsKept
=============================================================================
