----------------------------- MODULE HostFormat -----------------------------
(***************************************************************************)
(* From the address the application gives to the URL of the node:          *)
(* normalize_host and format_host_for_url, as the constructors use them.   *)
(*                                                                         *)
(* A text is a sequence of tokens. Delimiters are tokens of their own. The *)
(* other tokens are "name" (a label), "v4" (a dotted quad), the groups "x" *)
(* (digits and letters), "X" (the same group in capitals) and "1" (digits: *)
(* a group, or a port), and "65535" (too long for a group). An IPv6        *)
(* address has Groups groups.                                              *)
(*                                                                         *)
(* An address is put together from its parts. Which credentials, hosts and *)
(* tails there are is a parameter.                                         *)
(***************************************************************************)
EXTENDS Integers, SequencesExt

CONSTANTS Groups,           \* groups of an IPv6 address (8)
          Users,            \* credentials, empty or with their "@"
          Hosts,            \* names and IP addresses, well formed or not
          Tails             \* path, query and fragment

Digits == {"1", "65535"}
Hex == {"x", "X", "1"}
Labels == Digits \cup Hex \cup {"name", "v4"}
Delimiters == {":", "[", "]", "/", "?", "#", "@", "blank"}   \* blank: a space
Tokens == Labels \cup Delimiters

Count(s, t) == Cardinality({i \in 1..Len(s) : s[i] = t})

ASSUME GroupsAssumption == Groups \in Nat /\ Groups > 1

\* Credentials end with "@", and contain nothing that ends the authority of an
\* address. A host is any labels with any colons between and around them. (An
\* IPv6 address that ends with a dotted quad is not modelled.) A tail begins with
\* its delimiter. Blanks are only around an address.
ASSUME PartsAssumption ==
    /\ \A user \in Users :
         /\ user \in Seq(Tokens \ {"blank", "/", "?", "#"})
         /\ user = <<>> \/ user[Len(user)] = "@"
    /\ \A host \in Hosts :
         /\ host \in Seq(Labels \cup {":"}) /\ host # <<>>
         /\ \A i \in 1..(Len(host) - 1) : host[i] = ":" \/ host[i + 1] = ":"
         /\ Contains(host, "v4") => Count(host, ":") < 2
    /\ \A tail \in Tails :
         /\ tail \in Seq(Tokens \ {"blank"})
         /\ tail = <<>> \/ tail[1] \in {"/", "?", "#"}

VARIABLES given,            \* the parts the application has put together
          url               \* the base URL, empty before it is built

vars == <<given, url>>

-----------------------------------------------------------------------------
(* Cutting texts *)

Before(s, i) == SubSeq(s, 1, i - 1)
After(s, i) == SubSeq(s, i + 1, Len(s))

\* s.split(t, 1)[0] and s.rsplit(t, 1)[1], for a t in s; without one the text stays.
First(s, t) == Min({i \in 1..Len(s) : s[i] = t})
Final(s, t) == Max({i \in 1..Len(s) : s[i] = t})
UpTo(s, t)  == IF Contains(s, t) THEN Before(s, First(s, t)) ELSE s
BeyondLast(s, t) == IF Contains(s, t) THEN After(s, Final(s, t)) ELSE s

\* s.split("://", 1)[1]: behind the first colon with two slashes, wherever it is.
SchemeEnds(s) == {i \in 1..(Len(s) - 2) : s[i] = ":" /\ s[i + 1] = "/" /\ s[i + 2] = "/"}
BeyondScheme(s) == IF SchemeEnds(s) = {} THEN s ELSE SubSeq(s, Min(SchemeEnds(s)) + 3, Len(s))

\* s.lstrip(t) and s.strip()
Others(s, t) == {i \in 1..Len(s) : s[i] # t}
LeftStripped(s, t) ==
    IF Others(s, t) = {} THEN <<>> ELSE SubSeq(s, Min(Others(s, t)), Len(s))
Stripped(s) ==
    IF Others(s, "blank") = {} THEN <<>>
    ELSE SubSeq(s, Min(Others(s, "blank")), Max(Others(s, "blank")))

-----------------------------------------------------------------------------
(* ip_address of the Python library *)

\* Groups with one colon between two of them, or fewer with one double colon.
IsV6(s) ==
    LET groups  == Cardinality({i \in 1..Len(s) : s[i] \in Hex})
        doubles == {i \in 1..(Len(s) - 1) : s[i] = ":" /\ s[i + 1] = ":"}
    IN  /\ s # <<>> /\ \A i \in 1..Len(s) : s[i] \in Hex \cup {":"}
        /\ \A i \in 1..(Len(s) - 1) : s[i] = ":" \/ s[i + 1] = ":"
        /\ s[1] = ":" => 1 \in doubles
        /\ s[Len(s)] = ":" => (Len(s) - 1) \in doubles
        /\ \/ doubles = {} /\ groups = Groups
           \/ \E i \in doubles : doubles = {i} /\ groups < Groups
IsIP(s) == s = <<"v4">> \/ IsV6(s)

\* compressed: small letters.
Compressed(s) == [i \in 1..Len(s) |-> IF s[i] = "X" THEN "x" ELSE s[i]]

-----------------------------------------------------------------------------
(* normalize_host and format_host_for_url *)

\* Mutant: the credentials are dropped before the path.
AuthorityLate(address) ==
    LET raw == LeftStripped(BeyondScheme(Stripped(address)), "/")
    IN  UpTo(UpTo(UpTo(BeyondLast(raw, "@"), "#"), "?"), "/")

\* Without scheme, path, query, fragment and credentials, in this order.
Authority(address) ==
    LET raw == LeftStripped(BeyondScheme(Stripped(address)), "/")
    IN  BeyondLast(UpTo(UpTo(UpTo(raw, "#"), "?"), "/"), "@")

\* What is between the brackets of a text that begins with one.
Unbracketed(s) == IF s # <<>> /\ s[1] = "[" THEN UpTo(Tail(s), "]") ELSE s

\* An IP address is compressed, with a port after it or without. Of anything
\* else a port is removed, unless it has more than one colon.
NormalizeHost(address) ==
    LET host    == Unbracketed(Authority(address))
        colons  == Count(host, ":")
        name    == Before(host, Final(host, ":"))
        hasPort == /\ colons > 0 /\ Final(host, ":") = Len(host) - 1
                   /\ host[Len(host)] \in Digits
    IN  IF IsIP(host) THEN Compressed(host)
        ELSE IF colons >= 2
             THEN IF hasPort /\ IsIP(name) THEN Compressed(name) ELSE host
             ELSE IF hasPort THEN name ELSE host

\* Mutant: only what is an IPv6 address gets brackets.
FormatHostIPOnly(address) ==
    LET host == NormalizeHost(address)
    IN  IF IsV6(host) THEN <<"[">> \o host \o <<"]">> ELSE host

FormatHostForUrl(address) ==
    LET host == NormalizeHost(address)
    IN  IF IsV6(host) \/ Count(host, ":") >= 2 THEN <<"[">> \o host \o <<"]">> ELSE host

-----------------------------------------------------------------------------
(* The addresses *)

Scheme == <<"name", ":", "/", "/">>

Addresses ==
    [blank   : {<<>>, <<"blank">>},
     scheme  : {<<>>, Scheme, <<"/", "/">>},
     user    : Users,
     host    : Hosts,
     bracket : BOOLEAN,
     port    : {<<>>, <<":", "1">>, <<":", "65535">>},
     tail    : Tails]

HostPart(a) == IF a.bracket THEN <<"[">> \o a.host \o <<"]">> ELSE a.host
Text(a) == a.blank \o a.scheme \o a.user \o HostPart(a) \o a.port \o a.tail \o a.blank

Init ==
    /\ given \in {a \in Addresses : a.bracket => Count(a.host, ":") >= 2}
    /\ url = <<>>

\* The constructors: the port is given apart from the address.
Construct ==
    /\ url = <<>>
    /\ url' = FormatHostForUrl(Text(given)) \o <<":", "65535">>
    /\ UNCHANGED given

Next == Construct

Spec == Init /\ [][Next]_vars

-----------------------------------------------------------------------------
(* Properties *)

\* What a reader of the URL takes for the host: up to the closing bracket, or up
\* to the first colon.
UrlHost == IF url[1] = "[" THEN Before(Tail(url), First(Tail(url), "]"))
           ELSE UpTo(url, ":")
UrlPort == IF url[1] = "[" THEN After(url, First(url, "]")) ELSE After(url, First(url, ":") - 1)

\* Addresses of which the URL is another one's, as three guesses of the code have
\* it. A "://" is the end of a scheme, also where an address without a scheme has
\* one behind its host, or makes one of a colon and a path.
SchemeMistaken(a) ==
    a.scheme # Scheme /\ SchemeEnds(a.user \o HostPart(a) \o a.port \o a.tail) # {}

\* An IPv6 address without brackets before a port that may as well be its last
\* group is the address with that group.
PortTaken(a) == ~a.bracket /\ IsV6(a.host) /\ a.port # <<>> /\ IsV6(a.host \o a.port)

\* A single colon with no number behind it is part of the host, and stays in the
\* URL without brackets.
ColonKept(a) == a.port = <<>> /\ Count(a.host, ":") = 1 /\ a.host[Len(a.host)] \notin Digits

\* The host of the URL is the host of the address, in its compressed form, if that
\* is an IP address or a name, whatever surrounds it: scheme, credentials, port,
\* path, query and fragment, and delimiters that occur once more within these. The
\* exceptions are the first two guesses.
HostCanonical ==
    (/\ url # <<>>
     /\ ~SchemeMistaken(given) /\ ~PortTaken(given)
     /\ IsIP(given.host) \/ given.host = <<"name">>)
        => UrlHost = Compressed(given.host)

\* The port of the URL is the port the application gave: nothing of an address is
\* read as the port, its host well formed or not (the docstring of
\* format_host_for_url: "Hosts with multiple colons (IPv6-like) are bracketed to
\* avoid port confusion"). The exceptions are the first guess and the third.
PortUnambiguous ==
    (url # <<>> /\ ~SchemeMistaken(given) /\ ~ColonKept(given)) => UrlPort = <<":", "65535">>
=============================================================================
