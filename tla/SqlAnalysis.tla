---------------------------- MODULE SqlAnalysis ----------------------------
(***************************************************************************)
(* What the application makes of the SQL it is given, without a database:   *)
(* which of it is quoted or comment, where a statement ends, how risky it is *)
(* and whether it changes the catalogue (utils/sql_parser.rs,                *)
(* services/sql_risk.rs, commands/query.rs).  The text is typed symbol by    *)
(* symbol; a word is one symbol that stands for the word and a blank after   *)
(* it, a letter is one that joins what follows it to a longer word.          *)
(***************************************************************************)
EXTENDS Integers, Sequences, FiniteSets, SequencesExt, FiniteSetsExt

CONSTANT Scripts    \* records: the symbols to type, what the text starts with, its length

VARIABLES
  script,    \* the script that is typed
  sql        \* the text so far

sqlVars == <<script, sql>>

Letter == {"b", "q", "x"}
IdentifierByte == Letter \cup {"$"}
BlankText == {" ", "nl"}
Word == {"with", "delete", "update", "where", "select", "drop", "go", "call"}
Symbol == Letter \cup BlankText \cup Word \cup
          {"'", "dq", "esc", "[", "]", "(", ")", "-", "/", "*", "$", ";"}

At(t, i, part) == /\ i + Len(part) <= Len(t) + 1
                  /\ SubSeq(t, i, i + Len(part) - 1) = part
\* The first position from i on where part occurs, or one past the end.
Occurs(t, i, part) == Min({j \in i..Len(t) : At(t, j, part)} \cup {Len(t) + 1})
AtMost(t, i) == Min({i, Len(t) + 1})

TrimmedText(t) ==
  LET solid == {i \in DOMAIN t : t[i] \notin BlankText} IN
  IF solid = {} THEN <<>> ELSE SubSeq(t, Min(solid), Max(solid))

-----------------------------------------------------------------------------
(* Quoted regions and comments.  Each operator gives the position after the *)
(* region that starts at i, or i if none of its kind does.                  *)

LineCommentEnd(t, i) == IF At(t, i, <<"-", "-">>) THEN Occurs(t, i, <<"nl">>) ELSE i

\* Block comments nest.
BlockCommentEnd(t, i) ==
  LET inside[j \in 1..Len(t) + 2, depth \in 0..Len(t)] ==
        IF depth = 0 \/ j > Len(t) THEN AtMost(t, j)
        ELSE IF At(t, j, <<"/", "*">>) THEN inside[j + 2, depth + 1]
        ELSE IF At(t, j, <<"*", "/">>) THEN inside[j + 2, depth - 1]
        ELSE inside[j + 1, depth]
  IN IF At(t, i, <<"/", "*">>) THEN inside[i + 2, 1] ELSE i

\* oracle_q_quote_end: q'[ ... ]', not after an identifier.
QQuoteEnd(t, i) ==
  IF /\ At(t, i, <<"q", "'">>) /\ i + 2 \in DOMAIN t
     /\ t[i + 2] \notin BlankText \cup {"'"}
     /\ i > 1 => t[i - 1] \notin IdentifierByte
  THEN LET closing == IF t[i + 2] = "[" THEN "]" ELSE IF t[i + 2] = "(" THEN ")" ELSE t[i + 2]
       IN AtMost(t, Occurs(t, i + 3, <<closing, "'">>) + 2)
  ELSE i

\* A doubled quote does not end the region, and in a string a backslash escapes.
QuoteEnd(t, i) ==
  LET closing == IF t[i] = "[" THEN "]" ELSE t[i]
      inside[j \in 1..Len(t) + 2] ==
        IF j > Len(t) THEN Len(t) + 1
        ELSE IF t[i] = "'" /\ t[j] = "esc" THEN inside[j + 2]
        ELSE IF t[j] # closing THEN inside[j + 1]
        ELSE IF At(t, j + 1, <<closing>>) THEN inside[j + 2] ELSE j + 1
  IN IF t[i] \in {"'", "dq", "["} THEN inside[i + 1] ELSE i

\* dollar_delimiter: $$ or $tag$, not after an identifier.
DollarEnd(t, i) ==
  LET tags == {j \in i + 1..Len(t) : t[j] = "$" /\ \A k \in i + 1..j - 1 : t[k] \in Letter}
      delimiter == SubSeq(t, i, Min(tags)) IN
  IF t[i] = "$" /\ (i > 1 => t[i - 1] \notin IdentifierByte) /\ tags # {}
  THEN AtMost(t, Occurs(t, i + Len(delimiter), delimiter) + Len(delimiter))
  ELSE i

\* The kinds are tried in this order, and the first that starts at i counts.
FirstEnd(ends, i) ==
  LET kinds == {k \in DOMAIN ends : ends[k] # i} IN
  IF kinds = {} THEN i ELSE ends[Min(kinds)]
RegionEnd(t, i) ==
  FirstEnd(<<LineCommentEnd(t, i), BlockCommentEnd(t, i), QQuoteEnd(t, i), QuoteEnd(t, i),
             DollarEnd(t, i)>>, i)

\* The positions inside a region: what starts inside of one is none.
InRegions(ends) ==
  LET from[i \in 1..Len(ends) + 1] ==
        IF i > Len(ends) THEN {}
        ELSE IF ends[i] = i THEN from[i + 1] ELSE (i..ends[i] - 1) \cup from[ends[i]]
  IN from[1]
Covered(t) == InRegions([i \in DOMAIN t |-> RegionEnd(t, i)])

\* mask_sql: what is covered becomes blank, ends of lines stay.
Blanked(t, covered) == [i \in DOMAIN t |-> IF i \in covered /\ t[i] # "nl" THEN " " ELSE t[i]]
Mask(t) == Blanked(t, Covered(t))

-----------------------------------------------------------------------------
(* Statements.                                                              *)

LineStart(t, i) == 1 + Max({0} \cup {j \in 1..i - 1 : t[j] = "nl"})
LineEnd(t, i) == Occurs(t, i, <<"nl">>) - 1

\* normalize_go_batch_separators: a line that is GO, comments aside, becomes a separator.
GoLine(t, masked, i) == TrimmedText(SubSeq(masked, LineStart(t, i), LineEnd(t, i))) = <<"go">>
GoLines(t, masked) ==
  {LineStart(t, i) : i \in {j \in DOMAIN t : t[j] = "go" /\ GoLine(t, masked, j)}}
Separated(t, lines) ==
  [i \in DOMAIN t |->
     IF t[i] = "nl" \/ LineStart(t, i) \notin lines THEN t[i]
     ELSE IF i \in lines THEN ";" ELSE " "]
WithoutGo(t) == Separated(t, GoLines(t, Mask(t)))

\* split_sql_statements: the text is cut where its mask has a semicolon.
Pieces(text, masked) ==
  LET ends == {i \in DOMAIN text : masked[i] = ";"} \cup {Len(text) + 1}
      start(e) == 1 + Max({0} \cup {i \in ends : i < e})
      piece(e) == TrimmedText(SubSeq(text, start(e), e - 1))
      order == SetToSortSeq({e \in ends : piece(e) # <<>>}, <)
  IN [k \in DOMAIN order |-> piece(order[k])]
SplitBatch(text) == Pieces(text, Mask(text))
Split(t) == SplitBatch(WithoutGo(t))

-----------------------------------------------------------------------------
(* Risk.                                                                    *)

\* scope_tokens: the words, each with the parenthesis it is in.  Letters before a word
\* make it another one.
IsToken(t, i) ==
  \/ t[i] \in Word
  \/ t[i] \in Letter /\ (i = Len(t) \/ t[i + 1] \notin Word \cup Letter)
TokenWord(t, i) == IF t[i] \in Word /\ (i > 1 => t[i - 1] \notin Letter) THEN t[i] ELSE "other"

\* Mutant: a scope is known by its depth alone.
ScopesByDepth(t, i) ==
  LET depth[j \in 0..i] ==
        IF j = 0 THEN 0
        ELSE IF t[j] = "(" THEN depth[j - 1] + 1
        ELSE IF t[j] = ")" /\ depth[j - 1] > 0 THEN depth[j - 1] - 1 ELSE depth[j - 1]
  IN depth[i]

\* Every parenthesis is a scope of its own, and one that closes nothing is ignored.
ScopeAt(t, i) ==
  LET open[j \in 0..i] ==
        IF j = 0 THEN <<0>>
        ELSE IF t[j] = "(" THEN Append(open[j - 1], j)
        ELSE IF t[j] = ")" /\ Len(open[j - 1]) > 1 THEN Front(open[j - 1]) ELSE open[j - 1]
  IN Last(open[i])

Tokens(t) ==
  LET places == SetToSortSeq({i \in DOMAIN t : IsToken(t, i)}, <) IN
  [k \in DOMAIN places |-> [word |-> TokenWord(t, places[k]), scope |-> ScopeAt(t, places[k])]]

WordsOf(tokens) == {tokens[k].word : k \in DOMAIN tokens}
StartsWithCte(tokens) == tokens # <<>> /\ tokens[1].word = "with"

\* command_present
CommandPresent(tokens, word) ==
  /\ tokens # <<>>
  /\ tokens[1].word = word \/ (StartsWithCte(tokens) /\ word \in WordsOf(tokens))

\* dml_without_where: a later command of the same scope has a filter of its own.
DmlWithoutWhere(tokens, word) ==
  \E k \in DOMAIN tokens :
    /\ tokens[k].word = word /\ (k = 1 \/ StartsWithCte(tokens))
    /\ LET later == {n \in k + 1..Len(tokens) : tokens[n].scope = tokens[k].scope}
           commands == {n \in later : tokens[n].word \in {"select", "update", "delete"}} IN
       ~\E n \in later : tokens[n].word = "where" /\ \A c \in commands : n < c

Known(tokens) ==
  /\ tokens[1].word \in {"delete", "drop", "select", "update", "with"}
  /\ StartsWithCte(tokens) => WordsOf(tokens) \cap {"delete", "select", "update"} # {}

\* analyze_statement
ReasonsOf(tokens) ==
  IF tokens = <<>> THEN {}
  ELSE {r \in {"drop", "delete", "update", "procedural", "unclassified"} :
          \/ r = "drop" /\ CommandPresent(tokens, "drop")
          \/ r \in {"delete", "update"} /\ DmlWithoutWhere(tokens, r)
          \/ r = "procedural" /\ tokens[1].word = "call"
          \/ r = "unclassified" /\ tokens[1].word # "call" /\ ~Known(tokens)}
Reasons(statement) == ReasonsOf(Tokens(statement))

\* analyze_sql_risk: of the masked text, which is split as if it were a script.
RiskReasons(t) == UNION {Reasons(s) : s \in ToSet(Split(Mask(t)))}
Level(reasons) ==
  IF reasons \ {"procedural", "unclassified"} # {} THEN 2 ELSE IF reasons # {} THEN 1 ELSE 0
Risk(t) == Level(RiskReasons(t))

-----------------------------------------------------------------------------
(* Catalogue changes and names.                                             *)

\* contains_metadata_ddl: the first word of what is between semicolons, quoted or not.
ContainsMetadataDdl(t) ==
  LET ends == {i \in DOMAIN t : t[i] = ";"} \cup {Len(t) + 1} IN
  \E e \in ends :
    LET piece == TrimmedText(SubSeq(t, 1 + Max({0} \cup {i \in ends : i < e}), e - 1))
        first == SubSeq(piece, 1, Min({i \in DOMAIN piece : piece[i] \in BlankText \cup Word}
                                      \cup {Len(piece)}))
        letters == SelectSeq(first, LAMBDA c : c \notin BlankText)
    IN /\ letters # <<>> /\ Last(letters) = "drop"
       /\ \A i \in 1..Len(letters) - 1 : letters[i] \notin Letter

\* quote_identifier, quote_mysql_identifier
QuoteIdentifier(t) ==
  LET doubled == FlattenSeq([i \in DOMAIN t |->
                   IF t[i] = "dq" THEN <<"dq", "dq">> ELSE <<t[i]>>]) IN
  <<"dq">> \o doubled \o <<"dq">>

-----------------------------------------------------------------------------
SqlInit == script \in Scripts /\ sql = script.start

TypeSymbol ==
  /\ Len(sql) < script.length
  /\ \E c \in script.symbols : sql' = Append(sql, c)
  /\ UNCHANGED script

SqlNext == TypeSymbol
SqlSpec == SqlInit /\ [][SqlNext]_sqlVars

SqlTypeOK == script \in Scripts /\ sql \in Seq(Symbol) /\ Len(sql) <= script.length

-----------------------------------------------------------------------------
\* A line of GO that a comment or a quote begins or ends on, and continues on another line,
\* is emptied together with that beginning or end.
GoCutsARegion ==
  \E i \in DOMAIN sql : /\ sql[i] = "go" /\ GoLine(sql, Mask(sql), i)
                       /\ {LineStart(sql, i) - 1, LineEnd(sql, i) + 1} \cap Covered(sql) # {}

\* A dollar quote that follows the end of another is seen only when that one is masked.
DollarsTouch == Mask(Mask(sql)) # Mask(sql)

\* What is outside of regions, separators and GO lines is in a statement, in its order.
Solid(t) == SelectSeq(t, LAMBDA c : c \notin BlankText \cup {";", "go"})
NothingIsLost(statements) ==
  \/ Solid(FlattenSeq([k \in DOMAIN statements |-> Mask(statements[k])])) = Solid(Mask(sql))
  \/ GoCutsARegion

\* A statement is one: it would not be split again.
StatementsAreWhole(statements) ==
  \A k \in DOMAIN statements :
    LET s == statements[k] IN s # sql /\ WithoutGo(s) = s => Split(s) = <<s>>

\* What is asked of the user covers each statement that is then run.
RiskCoversStatements(statements, risk) ==
  \/ \A k \in DOMAIN statements :
       LET s == statements[k] IN s # sql /\ WithoutGo(s) = s => risk >= Risk(s)
  \/ DollarsTouch \/ GoCutsARegion

\* The parenthesis of i is still open, or open again, at j.
SameParenthesis(t, i, j) ==
  LET opened(k) == Cardinality({n \in i..k : t[n] = "("}) - Cardinality({n \in i..k : t[n] = ")"})
  IN opened(j) = 0 /\ \A k \in i..j : opened(k) >= 0
Balanced(t) == SameParenthesis(Append(t, ";"), 1, Len(t) + 1)

\* A delete counts as filtered exactly when a WHERE of its own follows it.
FiltersAreItsOwn(t) ==
  LET is(i, words) == IsToken(t, i) /\ TokenWord(t, i) \in words
      filtered(i) ==
        \E j \in i + 1..Len(t) :
          /\ is(j, {"where"}) /\ SameParenthesis(t, i, j)
          /\ \A k \in i + 1..j - 1 :
               is(k, {"select", "update", "delete"}) => ~SameParenthesis(t, i, k) IN
  StartsWithCte(Tokens(t)) /\ Balanced(t) =>
    ("delete" \in Reasons(t) <=> \E i \in DOMAIN t : is(i, {"delete"}) /\ ~filtered(i))
FiltersAreTheirOwn(statements) ==
  \A n \in DOMAIN statements : FiltersAreItsOwn(Mask(statements[n]))

\* A statement that starts with a DDL word clears the caches.
DdlIsNoticed(statements) ==
  \A k \in DOMAIN statements :
    statements[k][1] = "drop" => ContainsMetadataDdl(statements[k])

\* A name stays inside its quotes whatever is in it.
QuotedWhole(quoted) == Covered(quoted) = DOMAIN quoted
NamesStayQuoted == QuotedWhole(QuoteIdentifier(sql))

SplitIsTrue(statements) ==
  /\ NothingIsLost(statements) /\ StatementsAreWhole(statements)
  /\ RiskCoversStatements(statements, Risk(sql)) /\ FiltersAreTheirOwn(statements)
  /\ DdlIsNoticed(statements)

(* What is executed is what was analysed: no text is lost between the        *)
(* statements of a script, a statement is not split again, the risk the user  *)
(* confirms is at least that of each statement, a WHERE counts only for the   *)
(* command whose parenthesis it is in, a leading DDL word is noticed and a    *)
(* quoted name cannot end its quotes.  Exempt are a GO on a line where a      *)
(* comment or quote of several lines begins or ends, and a dollar quote right *)
(* after another.                                                            *)
SqlIsUnderstood == SplitIsTrue(Split(sql)) /\ NamesStayQuoted
=============================================================================
