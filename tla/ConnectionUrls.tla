--------------------------- MODULE ConnectionUrls ---------------------------
(***************************************************************************)
(* What commands/connection.rs makes of a pasted connection URL and host     *)
(* before anything is saved: the credentials of the URL move into the fields *)
(* of the form, and a port typed behind the host moves into the port.        *)
(*                                                                         *)
(* The `;key=value` properties of a URL and the host are texts of symbols;   *)
(* the userinfo and the query hold a user and a password or do not.         *)
(***************************************************************************)
EXTENDS Integers, Sequences, SequencesExt, FiniteSets, FiniteSetsExt

CONSTANTS
  MaxPairs,            \* bound: properties of a URL
  MaxValue,            \* bound: symbols of a property's value
  MaxHost              \* bound: symbols of a host

ASSUME UrlAssumption == {MaxPairs, MaxValue, MaxHost} \subseteq Nat

VARIABLES
  pairs,               \* the properties whoever wrote the URL meant
  host                 \* the text of the host field

urlVars == <<pairs, host>>

Key == {"user", "password", "other"}
Text(symbols, n) == BoundedSeq(symbols, n)
PropertyText == Text({"{", "}", ";", "="}, MaxValue)
HostSymbol == {"h", ":", "5", "0", "blank"}
Absent == <<"absent">>

----------------------------------------------------------------------------
\* The properties of a URL.

\* How a writer protects a value: braces around it, closing braces doubled.
Written(pair) ==
  <<";", pair.key, "=">> \o
  IF ToSet(pair.value) \cap {"{", "}", ";"} = {}
  THEN pair.value
  ELSE <<"{">> \o FlattenSeq([i \in DOMAIN pair.value |->
                                IF pair.value[i] = "}" THEN <<"}", "}">> ELSE <<pair.value[i]>>])
              \o <<"}">>

\* The scan of the text symbol by symbol: the parts so far, whether inside
\* braces, and whether the symbol is the second of a doubled brace.
\* Mutant: a doubled brace closes the value.
ScanPlainly(text, scan, i) ==
  IF text[i] = ";" /\ ~scan.braced
  THEN [scan EXCEPT !.parts = Append(@, <<>>)]
  ELSE [parts  |-> Front(scan.parts) \o <<Append(Last(scan.parts), text[i])>>,
        braced |-> text[i] = "{" \/ (scan.braced /\ text[i] # "}"),
        skip   |-> FALSE]

Scan(text, scan, i) ==
  LET doubled == /\ text[i] = "}" /\ scan.braced /\ ~scan.skip
                 /\ i < Len(text) /\ text[i + 1] = "}"
  IN IF text[i] = ";" /\ ~scan.braced
     THEN [scan EXCEPT !.parts = Append(@, <<>>)]
     ELSE [parts  |-> Front(scan.parts) \o <<Append(Last(scan.parts), text[i])>>,
           braced |-> doubled \/ scan.skip \/ text[i] = "{" \/ (scan.braced /\ text[i] # "}"),
           skip   |-> doubled]

SplitConnectionProperties(text) ==
  FoldLeftDomain(LAMBDA scan, i : Scan(text, scan, i),
                 [parts |-> <<<<>>>>, braced |-> FALSE, skip |-> FALSE], text).parts

IsKeyed(part) == Len(part) >= 2 /\ part[2] = "="
KeyOf(part) == IF IsKeyed(part) THEN part[1] ELSE "other"

\* Two closing braces become one, from the left.
Undoubled(value) ==
  FoldLeft(LAMBDA done, symbol :
             IF symbol = "}" /\ done.open
             THEN [done EXCEPT !.open = FALSE]
             ELSE [value |-> Append(done.value, symbol), open |-> symbol = "}"],
           [value |-> <<>>, open |-> FALSE], value).value

DecodePropertyCredential(value) ==
  IF Len(value) >= 2 /\ Head(value) = "{" /\ Last(value) = "}"
  THEN Undoubled(SubSeq(value, 2, Len(value) - 1))
  ELSE value

Property(parts, key) ==
  LET found == {i \in DOMAIN parts : KeyOf(parts[i]) = key} IN
    IF found = {} THEN Absent
    ELSE DecodePropertyCredential(SubSeq(parts[Min(found)], 3, Len(parts[Min(found)])))

Others(parts) ==
  FlattenSeq([i \in DOMAIN parts |-> IF KeyOf(parts[i]) = "other" THEN <<parts[i]>> ELSE <<>>])

----------------------------------------------------------------------------
\* The credentials of a URL.  A form is what is typed: the URL with its
\* properties, its userinfo and query, whether it is a URI, and the fields.

OrElse(first, second) == IF first # Absent THEN first ELSE second
Held(place) == \E key \in DOMAIN place : place[key] # Absent
Nowhere == [user |-> Absent, password |-> Absent]

\* extract_sql_server_url_credentials.
Joined(parts) == FlattenSeq([i \in DOMAIN parts |-> IF i = 1 THEN parts[i] ELSE <<";">> \o parts[i]])
TakeOut(form, others, user, password) ==
  IF user = Absent /\ password = Absent
  THEN form
  ELSE [form EXCEPT !.properties = Joined(others),
                    !.typed = [user     |-> OrElse(user, form.typed.user),
                               password |-> OrElse(password, form.typed.password)],
                    !.taken = TRUE]
ExtractParts(form, parts) ==
  TakeOut(form, Others(parts), Property(parts, "user"), Property(parts, "password"))
ExtractProperties(form) == ExtractParts(form, SplitConnectionProperties(form.properties))

\* Mutant: a URL that does not parse is saved as it stands.
ExtractLeniently(form) ==
  LET cut == ExtractProperties(form) IN
    IF ~form.isUri
    THEN [cut EXCEPT !.refused = FALSE]
    ELSE [cut EXCEPT !.userinfo = Nowhere, !.query = Nowhere]

\* extract_url_credentials.
ExtractRest(form, cut) ==
  LET taken(field) == OrElse(form.userinfo[field],
                             IF cut.taken /\ cut.typed[field] # Absent
                             THEN cut.typed[field] ELSE form.query[field])
  IN IF ~form.isUri
     THEN [cut EXCEPT !.refused = Held(form.userinfo) \/ Held(form.query)]
     ELSE [cut EXCEPT !.typed = [field \in {"user", "password"} |->
                                   OrElse(taken(field), cut.typed[field])],
                      !.userinfo = Nowhere,
                      !.query = Nowhere]
Extract(form) == ExtractRest(form, ExtractProperties(form))

----------------------------------------------------------------------------
\* The host and the port.

TrimmedHost(text) ==
  LET full == {i \in DOMAIN text : text[i] # "blank"} IN
    IF full = {} THEN <<>> ELSE SubSeq(text, Min(full), Max(full))

\* Mutant: the last colon always starts a port.
NormalizeAnyHost(text, port) ==
  LET trimmed == TrimmedHost(text)
      colons  == {i \in DOMAIN trimmed : trimmed[i] = ":"}
      digits  == SubSeq(trimmed, Max(colons \cup {0}) + 1, Len(trimmed))
  IN IF colons = {} \/ digits = <<>> \/ ToSet(digits) \ {"5", "0"} # {}
     THEN [host |-> trimmed, port |-> port]
     ELSE [host |-> SubSeq(trimmed, 1, Max(colons) - 1), port |-> digits]

\* A port is at most 65535, so one of these digits has five places after its leading zeros.
NormalizeTrimmed(trimmed, port) ==
  LET colons  == {i \in DOMAIN trimmed : trimmed[i] = ":"}
      digits  == SubSeq(trimmed, Max(colons \cup {0}) + 1, Len(trimmed))
      isPort  == digits # <<>> /\ ToSet(digits) \subseteq {"5", "0"} /\ "5" \in ToSet(digits)
                 /\ \A i \in 1..(Len(digits) - 5) : digits[i] = "0"
  IN IF Cardinality(colons) = 1 /\ colons # {1} /\ isPort
     THEN [host |-> SubSeq(trimmed, 1, Max(colons) - 1), port |-> digits]
     ELSE [host |-> trimmed, port |-> port]
NormalizeHostPort(text, port) == NormalizeTrimmed(TrimmedHost(text), port)

----------------------------------------------------------------------------
\* A URL is written property by property, a host symbol by symbol.

UrlInit == pairs = <<>> /\ host = <<>>

WriteProperty(key, value) ==
  /\ Len(pairs) < MaxPairs /\ host = <<>>
  /\ pairs' = Append(pairs, [key |-> key, value |-> value])
  /\ UNCHANGED host

TypeHost(symbol) ==
  /\ Len(host) < MaxHost /\ pairs = <<>>
  /\ host' = Append(host, symbol)
  /\ UNCHANGED pairs

UrlNext ==
  \/ \E key \in Key, value \in PropertyText : WriteProperty(key, value)
  \/ \E symbol \in HostSymbol : TypeHost(symbol)

UrlSpec == UrlInit /\ [][UrlNext]_urlVars

----------------------------------------------------------------------------
UrlTypeOK ==
  /\ pairs \in Text([key : Key, value : PropertyText], MaxPairs)
  /\ host \in Text(HostSymbol, MaxHost)

Credential(name) == {Absent, <<name>>}
Place(name) == [user : Credential(name), password : Credential(name)]

UrlForms ==
  [properties : {<<"other">> \o FlattenSeq([i \in DOMAIN pairs |-> Written(pairs[i])])},
   userinfo : Place("info"), query : Place("query"),
   typed : {Nowhere, [user |-> <<"form">>, password |-> <<"form">>]},
   isUri : BOOLEAN, taken : {FALSE}, refused : {FALSE}]

Meant(key) ==
  LET those == {i \in DOMAIN pairs : pairs[i].key = key} IN
    IF those = {} THEN Absent ELSE pairs[Min(those)].value

\* What is left of a form whose URL is cleaned to out.
IsClean(form, out) ==
  LET kept == FlattenSeq([i \in DOMAIN pairs |->
                            IF pairs[i].key = "other" THEN <<pairs[i]>> ELSE <<>>])
  IN
  \/ out.refused
  \/ /\ ~Held(out.userinfo) /\ ~Held(out.query)
     /\ out.properties = <<"other">> \o FlattenSeq([i \in DOMAIN kept |-> Written(kept[i])])
     /\ \A key \in {"user", "password"} :
          /\ Meant(key) # Absent /\ form.userinfo[key] = Absent => out.typed[key] = Meant(key)
          /\ Meant(key) # Absent \/ Held([form.userinfo EXCEPT ![key] = form.query[key]])
               => Held(out.typed)
     /\ Extract([out EXCEPT !.taken = FALSE]) = [out EXCEPT !.taken = FALSE]

\* Whatever the URL, either the form is refused or no place of its URL holds a
\* credential any more; what the writer of a property protected with braces
\* arrives as it was meant, every other property survives in its order, no
\* password a URL gave is lost, and cleaning what is clean changes nothing.
CredentialsLeaveTheUrl ==
  host = <<>> => \A form \in UrlForms : IsClean(form, Extract(form))

\* A port typed behind a host becomes the port and nothing else of the text is
\* touched: an IPv6 literal and a port that is none stay in the host, and
\* normalising once more changes nothing unless a blank stood before the colon.
HostAndPortAreTakenApart ==
  LET colons == Cardinality({i \in DOMAIN host : host[i] = ":"})
      apart(out) ==
        /\ colons # 1 => out.host = TrimmedHost(host)
        /\ out.port = Absent \/ out.host \o <<":">> \o out.port = TrimmedHost(host)
        /\ NormalizeHostPort(out.host, out.port) # out => Last(out.host) = "blank"
  IN apart(NormalizeHostPort(host, Absent))
=============================================================================
