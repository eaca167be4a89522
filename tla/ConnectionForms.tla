--------------------------- MODULE ConnectionForms ---------------------------
(***************************************************************************)
(* A data source from the form to the session: what saving a form keeps of   *)
(* the row it edits (services/config_store.rs), which edits end the session  *)
(* (commands/connection.rs), what a test of the form connects with, and what *)
(* a configuration comes down to when a session is opened with it           *)
(* (services/driver_registry.rs, connection_manager.rs, connection_tls.rs    *)
(* and the URL rewriting of ssh_tunnel.rs).                                  *)
(*                                                                         *)
(* A secret is the value typed for it.  The user name, the port, the         *)
(* database and the paths behave like the host and go with it.              *)
(***************************************************************************)
EXTENDS Naturals, FiniteSets

CONSTANTS
  Native, Jdbc,        \* driver definitions by their backend
  Address,             \* what a host field can say
  Url,                 \* what a URL field can say
  Forwardable,         \* the URLs whose host a tunnel can replace
  Password,
  Secret,              \* what a secret of a tunnel or a property can be
  Nothing              \* not there: no row, no session, no text, no secret

ASSUME FormAssumption ==
  /\ Native \cap Jdbc = {} /\ Address \cap Url = {} /\ Forwardable \subseteq Url
  /\ Nothing \notin Native \cup Jdbc \cup Address \cup Url \cup Password \cup Secret

VARIABLES
  row,                 \* the saved data source
  session              \* what its session was opened with

formVars == <<row, session>>

Definition == Native \cup Jdbc
Maybe(S) == S \cup {Nothing}
Tunnel == [state : {"absent", "off"}, secret : {Nothing}]
            \cup [state : {"on"}, secret : Maybe(Secret)]

\* A property's secret is kept with the driver it was typed for.
PropertyOf(d) == {[there |-> FALSE, secret |-> Nothing]}
                   \cup [there : {TRUE}, secret : Maybe({d} \X Secret)]

\* A form; a row is a form whose secrets are the saved ones.
Config ==
  [definition : Definition, mode : {"fields", "url"}, url : Maybe(Url), host : Maybe(Address),
   password : Maybe(Password), tunnel : Tunnel,
   property : UNION {PropertyOf(d) : d \in Definition}, tls : BOOLEAN]

ASSUME RowAssumption == Nothing \notin Config

----------------------------------------------------------------------------
\* What a session is opened with.

NoConnection == [refused |-> TRUE]

\* resolve_connection: structured modes do not look at a URL left in the row,
\* and a JDBC one builds its own from the fields.
Resolved(c) ==
  CASE c.mode = "url"      -> c.url
    [] c.definition \in Jdbc -> "built"
    [] OTHER                 -> Nothing

\* A native driver takes no properties.
ResolveRefuses(c) == c.definition \in Native /\ c.property.there

\* An explicit TLS mode is never ignored: next to a URL, whose own settings
\* would count, and under JDBC it is refused.
TlsRefuses(c) == c.tls /\ (Resolved(c) # Nothing \/ c.definition \in Jdbc)

\* A property or a URL that could lead around the tunnel, and no host to forward to.
TunnelRefuses(c) ==
  /\ c.tunnel.state = "on"
  /\ c.property.there \/ c.host = Nothing \/ Resolved(c) \in Url \ Forwardable

\* Nothing to connect to.
DriverRefuses(c) == Resolved(c) = Nothing /\ (c.host = Nothing \/ c.definition \in Jdbc)

Refuses(c) == ResolveRefuses(c) \/ TlsRefuses(c) \/ TunnelRefuses(c) \/ DriverRefuses(c)

\* create_active_connection and test_connection.  A tunnel forwards to the host
\* of the fields even when the mode is a URL.
Effective(c) ==
  IF Refuses(c) THEN NoConnection
  ELSE [refused    |-> FALSE,
        definition |-> c.definition,
        server     |-> IF c.tunnel.state = "on" \/ Resolved(c) \notin Url THEN c.host ELSE Resolved(c),
        options    |-> Resolved(c),
        through    |-> c.tunnel,
        property   |-> c.property,
        tls        |-> c.tls,
        password   |-> c.password]

----------------------------------------------------------------------------
\* Saving and testing a form.

Typed(value, otherwise) == IF value # Nothing THEN value ELSE otherwise

\* Mutant: a blank secret keeps the saved one whichever driver it was for.
KeptAnyway(old, c) ==
  IF old = Nothing
  THEN [password |-> Nothing, tunnel |-> Nothing, property |-> Nothing]
  ELSE [password |-> old.password, tunnel |-> old.tunnel.secret, property |-> old.property.secret]

\* What a blank secret of a form stands for.
Kept(old, c) ==
  IF old = Nothing
  THEN [password |-> Nothing, tunnel |-> Nothing, property |-> Nothing]
  ELSE [password |-> old.password,
        tunnel   |-> old.tunnel.secret,
        property |-> IF old.definition = c.definition THEN old.property.secret ELSE Nothing]

\* encrypt_ssh_tunnel_secrets, encrypt_driver_properties and
\* update_connection_password: a blank secret keeps the saved one.
Saved(old, c, save) ==
  LET kept == Kept(old, c) IN
    [c EXCEPT !.password = IF save THEN Typed(@, kept.password) ELSE Nothing,
              !.tunnel.secret = IF c.tunnel.state = "on" THEN Typed(@, kept.tunnel) ELSE Nothing,
              !.property.secret = IF c.property.there THEN Typed(@, kept.property) ELSE Nothing]

\* Mutant: the saved password goes before the typed one.
TestedWithSaved(old, c) ==
  LET kept == Kept(old, c) IN
    [c EXCEPT !.password = Typed(kept.password, @),
              !.tunnel.secret = IF c.tunnel.state = "on" THEN Typed(@, kept.tunnel) ELSE Nothing,
              !.property.secret = IF c.property.there THEN Typed(@, kept.property) ELSE Nothing]

\* test_connection: the form with the saved secrets in the blanks.
Tested(old, c) ==
  LET kept == Kept(old, c) IN
    [c EXCEPT !.password = Typed(@, kept.password),
              !.tunnel.secret = IF c.tunnel.state = "on" THEN Typed(@, kept.tunnel) ELSE Nothing,
              !.property.secret = IF c.property.there THEN Typed(@, kept.property) ELSE Nothing]

\* Mutant: a typed secret of the tunnel counts as no change.
NeedsRefreshButForSecrets(old, c) ==
  \/ \E field \in {"definition", "mode", "url", "host", "tls"} : old[field] # c[field]
  \/ old.tunnel.state # c.tunnel.state
  \/ old.property.there # c.property.there \/ {old.property.secret, c.property.secret} # {Nothing}
  \/ c.password # Nothing

\* requires_runtime_invalidation.  A property is compared as the frontend sees
\* it: one with a saved value never equals the one the form sends back.
NeedsRefresh(old, c) ==
  \/ \E field \in {"definition", "mode", "url", "host", "tls"} : old[field] # c[field]
  \/ old.tunnel.state # c.tunnel.state \/ c.tunnel.secret # Nothing
  \/ old.property.there # c.property.there \/ {old.property.secret, c.property.secret} # {Nothing}
  \/ c.password # Nothing

----------------------------------------------------------------------------
\* The form shows a row without its secrets; two of its fields are changed
\* before it is saved or tested.

Shown(c) == [c EXCEPT !.password = Nothing, !.tunnel.secret = Nothing, !.property.secret = Nothing]

BlankForm(d) == [definition |-> d, mode |-> "fields", url |-> Nothing, host |-> Nothing,
             password |-> Nothing, tunnel |-> [state |-> "absent", secret |-> Nothing],
             property |-> [there |-> FALSE, secret |-> Nothing], tls |-> FALSE]

Changes(c) ==
  {[c EXCEPT !.definition = d, !.property.secret = Nothing] : d \in Definition}
    \cup {[c EXCEPT !.mode = mode] : mode \in {"fields", "url"}}
    \cup {[c EXCEPT !.url = url] : url \in Maybe(Url)}
    \cup {[c EXCEPT !.host = host] : host \in Maybe(Address)}
    \cup {[c EXCEPT !.password = password] : password \in Password}
    \cup {[c EXCEPT !.tunnel = tunnel] : tunnel \in Tunnel}
    \cup {[c EXCEPT !.property = property] : property \in PropertyOf(c.definition)}
    \cup {[c EXCEPT !.tls = ~@]}

Forms ==
  LET shown == IF row = Nothing THEN {BlankForm(d) : d \in Definition} ELSE {Shown(row)}
  IN UNION {UNION {Changes(changed) : changed \in Changes(c)} : c \in shown}

----------------------------------------------------------------------------
FormInit == row = Nothing /\ session = Nothing

\* create_connection and update_connection.
SaveForm(c, save) ==
  /\ row' = Saved(row, c, save)
  /\ session' = IF row # Nothing /\ NeedsRefresh(row, c) THEN Nothing ELSE session

\* decrypt_connection_credentials: the saved password unless one was typed.
Credentials(password) == [row EXCEPT !.password = Typed(password, @)]

\* connect.
Connect(password) ==
  /\ row # Nothing /\ session = Nothing
  /\ ~Effective(Credentials(password)).refused
  /\ session' = Effective(Credentials(password))
  /\ UNCHANGED row

Disconnect ==
  /\ session # Nothing
  /\ session' = Nothing
  /\ UNCHANGED row

Delete ==
  /\ row # Nothing
  /\ row' = Nothing /\ session' = Nothing

FormNext ==
  \/ \E c \in Forms, save \in BOOLEAN : SaveForm(c, save)
  \/ \E password \in Maybe(Password) : Connect(password)
  \/ Disconnect
  \/ Delete

FormSpec == FormInit /\ [][FormNext]_formVars

----------------------------------------------------------------------------
FormTypeOK ==
  /\ row \in Maybe(Config)
  /\ session = Nothing \/ session.definition \in Definition

\* A test answers for what it stands for: whatever the form, it connects with
\* exactly what a session would be opened with once the form is saved with its
\* password, or is refused as that would be.
TestMeansConnect ==
  \A c \in Forms : Effective(Tested(row, c)) = Effective(Saved(row, c, TRUE))

\* A session that outlived the edits of its data source runs with what the row
\* says now, but for a password that was typed for it or is no longer saved;
\* so no change of a host, a tunnel, a driver or a secret is missed.
KeptSessionIsCurrent ==
  session # Nothing =>
    [session EXCEPT !.password = Nothing] = [Effective(row) EXCEPT !.password = Nothing]

\* A saved secret belongs to what the row uses: no secret of a tunnel that is
\* off, and no property secret typed for another driver.
SecretsBelong ==
  row # Nothing =>
    /\ row.tunnel.state # "on" => row.tunnel.secret = Nothing
    /\ row.property.secret \in Maybe({row.definition} \X Secret)

FormsAreHonoured == TestMeansConnect /\ KeptSessionIsCurrent /\ SecretsBelong
=============================================================================
