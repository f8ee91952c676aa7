------------------------------ MODULE WordCount ------------------------------
(***************************************************************************)
(* What the workload computes: worker_map_run with emit_word_count over    *)
(* the characters of an input split (src/src/worker_map.c), and            *)
(* worker_reduce_run with fold_word_count over the intermediate files      *)
(* (src/src/worker_reduce.c).  The files a task leaves under failures and  *)
(* retries are the subject of module Worker; here every I/O call succeeds. *)
(*                                                                         *)
(* Both runners read through fgets into a buffer of LINE_MAX characters,   *)
(* so a line of LINE_MAX characters or more arrives in pieces.             *)
(***************************************************************************)
EXTENDS Integers, FiniteSets, Sequences

LOCAL INSTANCE SequencesExt
LOCAL INSTANCE FiniteSetsExt
LOCAL INSTANCE TLC

CONSTANTS
  M, R,
  Letters,            \* the characters of words, as codes above 32
  MaxLen,             \* bound on the characters of all splits together
  LINE_MAX,           \* WORKER_MAP_LINE_MAX and WORKER_REDUCE_LINE_MAX (8192)
  MaxValuesPerKey,    \* WORKER_REDUCE_MAX_VALUES_PER_KEY (1024)
  HashWidth,          \* bits of size_t
  NoFile              \* stands for a file that does not exist

ASSUME WordCountAssumption ==
  /\ M \in Nat \ {0} /\ R \in Nat \ {0}
  /\ \A c \in Letters : c > 32
  /\ LINE_MAX > 1
  /\ MaxValuesPerKey \in Nat \ {0}

VARIABLES
  input,    \* the characters of each split
  mid,      \* mid[x][y]: the characters of intermediate/mr-x-y, once published
  out,      \* out[y]: the rows of output/mr-out-y, once published
  result    \* how the last run of each reduce ended

vars == <<input, mid, out, result>>

Splits == 0 .. M - 1
Partitions == 0 .. R - 1

Tab == 9
Newline == 10
Space == 32

\* The set " \t\n\r" strsep cuts words at, and the digit the mapper writes.
Separators == {Tab, Newline, 13, Space}
One == 49

Texts == UNION {[1 .. n -> Letters \cup {Space, Newline}] : n \in 0 .. MaxLen}

-----------------------------------------------------------------------------
(***************************************************************************)
(* Reading                                                                 *)
(***************************************************************************)

\* Cut text after every character of stops, and wherever a piece has got
\* limit characters.  What is left at the end of the text is a piece too.
Pieces(text, stops, limit) ==
  LET step(acc, c) ==
        LET piece == Append(acc.piece, c)
        IN  IF c \in stops \/ Len(piece) = limit
            THEN [done |-> Append(acc.done, piece), piece |-> << >>]
            ELSE [acc EXCEPT !.piece = piece]
      all == FoldLeft(step, [done |-> << >>, piece |-> << >>], text)
  IN  IF all.piece = << >> THEN all.done ELSE Append(all.done, all.piece)

\* The buffers successive calls of fgets fill.
fgets(text) == Pieces(text, {Newline}, LINE_MAX - 1)

\* The tokens of a line that are not empty.
strsep(line) ==
  LET cut == Pieces(line, Separators, Len(line) + 1)
  IN  SelectSeq([n \in 1 .. Len(cut) |->
                  IF Last(cut[n]) \in Separators THEN Front(cut[n]) ELSE cut[n]],
                LAMBDA tok : tok # << >>)

tokenize_file(text) ==
  FlattenSeq([n \in 1 .. Len(fgets(text)) |-> strsep(fgets(text)[n])])

-----------------------------------------------------------------------------
(***************************************************************************)
(* The mapper                                                              *)
(***************************************************************************)

get_hash(key) == FoldLeft(LAMBDA h, c : (33 * h + c) % 2 ^ HashWidth, 5381, key)

\* The record emit_word_count prints for a token.
MapRecord(tok) == tok \o <<Tab, One, Newline>>

\* What the handle of partition y holds when all tokens have been emitted.
emit_word_count(tokens, y) ==
  LET mine == SelectSeq(tokens, LAMBDA tok : get_hash(tok) % R = y)
  IN  FlattenSeq([n \in 1 .. Len(mine) |-> MapRecord(mine[n])])

worker_map_run(x) ==
  /\ mid' = [mid EXCEPT ![x] = [y \in Partitions |->
               emit_word_count(tokenize_file(input[x]), y)]]
  /\ UNCHANGED <<input, out, result>>

-----------------------------------------------------------------------------
(***************************************************************************)
(* The reducer                                                             *)
(***************************************************************************)

\* Up to the first c of s, and after it.
Before(s, c) == IF c \in Range(s) THEN SubSeq(s, 1, SelectInSeq(s, LAMBDA d : d = c) - 1)
                                  ELSE s

After(s, c) == SubSeq(s, SelectInSeq(s, LAMBDA d : d = c) + 1, Len(s))

\* A line with no tab leaves value NULL; a line with no newline ends value.
ParsedRecord(line) == [key |-> Before(line, Tab), value |-> Before(After(line, Tab), Newline)]

WellFormed(line) == Tab \in Range(line) /\ Before(line, Tab) # << >>

read_records_file(text) ==
  LET lines == SelectSeq(fgets(text), WellFormed)
  IN  [n \in 1 .. Len(lines) |-> ParsedRecord(lines[n])]

\* strcmp.
RECURSIVE Less(_, _)
Less(s, t) ==
  /\ t # << >>
  /\ \/ s = << >>
     \/ Head(s) < Head(t)
     \/ Head(s) = Head(t) /\ Less(Tail(s), Tail(t))

compare_by_key(a, b) == Less(a.key, b.key)

\* Mutant: the last input is left out.
Records_but_last(y) ==
  FlattenSeq([x \in 1 .. M - 1 |-> read_records_file(mid[x - 1][y])])

\* The record list when every input has been read.
Records(y) ==
  FlattenSeq([x \in 1 .. M |-> read_records_file(mid[x - 1][y])])

Row(key, count) == [key |-> key, count |-> count]

\* Mutant: the bound on the values of a key is tested too late.
TooManyLate(n) == n > MaxValuesPerKey

\* No slot of vals is left for one more value.
TooMany(n) == n >= MaxValuesPerKey

\* fold_word_count prints the row of the group that ends.
Flushed(acc) == IF acc.n > 0 THEN Append(acc.rows, Row(acc.key, acc.n)) ELSE acc.rows

\* One record of the walk: a key boundary ends the group before it, and a
\* group with too many values gives the run up.
GroupStep(acc, r) ==
  CASE ~ acc.ok                         -> acc
    [] acc.ok /\ (acc.n = 0 \/ r.key # acc.key) ->
         [acc EXCEPT !.rows = Flushed(acc), !.key = r.key, !.n = 1]
    [] OTHER ->
         IF TooMany(acc.n) THEN [acc EXCEPT !.ok = FALSE] ELSE [acc EXCEPT !.n = @ + 1]

GroupWalk(records) ==
  LET end == FoldLeft(GroupStep, [ok |-> TRUE, rows |-> << >>, key |-> << >>, n |-> 0], records)
  IN  [end EXCEPT !.rows = Flushed(end)]

\* An input is missing: fopen in read_records_file fails and the run ends.
worker_reduce_run_missing(y) ==
  /\ \E x \in Splits : mid[x][y] = NoFile
  /\ result' = [result EXCEPT ![y] = "missing"]
  /\ UNCHANGED <<input, mid, out>>

\* rename publishes the rows only when the whole walk succeeded.
worker_reduce_run(y) ==
  LET walk == GroupWalk(SortSeq(Records(y), compare_by_key))
  IN  /\ \A x \in Splits : mid[x][y] # NoFile
      /\ out' = [out EXCEPT ![y] = IF walk.ok THEN walk.rows ELSE @]
      /\ result' = [result EXCEPT ![y] = IF walk.ok THEN "published" ELSE "overflow"]
      /\ UNCHANGED <<input, mid>>

SumOfLengths(texts) == MapThenSumSet(LAMBDA x : Len(texts[x]), Splits)

Init ==
  /\ input \in {in \in [Splits -> Texts] : SumOfLengths(in) <= MaxLen}
  /\ mid = [x \in Splits |-> [y \in Partitions |-> NoFile]]
  /\ out = [y \in Partitions |-> NoFile]
  /\ result = [y \in Partitions |-> "none"]

Next ==
  \/ \E x \in Splits : worker_map_run(x)
  \/ \E y \in Partitions : worker_reduce_run(y) \/ worker_reduce_run_missing(y)

Spec == Init /\ [][Next]_vars

-----------------------------------------------------------------------------
(***************************************************************************)
(* Reference: the words of a text are its maximal runs of letters.         *)
(***************************************************************************)

IsWordAt(text, i, j) ==
  /\ \A k \in i .. j : text[k] \notin Separators
  /\ i = 1 \/ text[i - 1] \in Separators
  /\ j = Len(text) \/ text[j + 1] \in Separators

Occurrences ==
  {o \in Splits \X (1 .. MaxLen) \X (1 .. MaxLen) :
     /\ o[2] <= o[3] /\ o[3] <= Len(input[o[1]])
     /\ IsWordAt(input[o[1]], o[2], o[3])}

WordOf(o) == SubSeq(input[o[1]], o[2], o[3])

Words == {WordOf(o) : o \in Occurrences}

CountOf(w) == Cardinality({o \in Occurrences : WordOf(o) = w})

\* Every line fits the buffers with its newline and its terminator.
ShortLines ==
  \A x \in Splits : \A i \in 1 .. Len(input[x]) :
    LINE_MAX - 2 < i => \E k \in i - LINE_MAX + 2 .. i : input[x][k] = Newline

AllPublished == \A y \in Partitions : out[y] # NoFile

-----------------------------------------------------------------------------
(***************************************************************************)
(* Properties                                                              *)
(***************************************************************************)

\* When no line reaches the size of the buffers, the published outputs hold
\* every word of every split once, in one partition, with the number of its
\* occurrences, and nothing else (tokenize_file, emit_word_count,
\* read_records_file and the group walk of worker_reduce_run together); each
\* output is sorted by strcmp.
CountsExact ==
  ShortLines /\ AllPublished =>
    /\ UNION {Range(out[y]) : y \in Partitions} = {Row(w, CountOf(w)) : w \in Words}
    /\ Cardinality(Words) = Cardinality({<<y, n>> \in Partitions \X (1 .. M * MaxLen) :
                                            n \in DOMAIN out[y]})
    /\ \A y \in Partitions : \A n \in 1 .. Len(out[y]) - 1 :
         Less(out[y][n].key, out[y][n + 1].key)

\* A reduce with all its inputs fails exactly when one of its words occurs
\* more often than vals has room for, and such a reduce never publishes an
\* output (the `goto done' before the rename in worker_reduce_run): no later
\* run of the task can do better.
OverflowFailsExactly ==
  ShortLines => \A y \in Partitions :
    LET over == \E w \in Words : get_hash(w) % R = y /\ CountOf(w) > MaxValuesPerKey
    IN  /\ result[y] = "overflow" => over
        /\ over => result[y] # "published" /\ out[y] = NoFile
=============================================================================
