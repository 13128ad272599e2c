-------------------------------- MODULE Url --------------------------------
(***************************************************************************)
(* vlc_url.h of the VLC SDK: vlc_UrlParse cuts a URL of the format         *)
(*   [protocol://[login[:password]@]][host[:port]]/path[OPTIONoption]      *)
(* into its parts.  A URL is a sequence of tokens: words, and the          *)
(* characters the parser looks for.                                        *)
(***************************************************************************)
EXTENDS Integers, SequencesExt

CONSTANTS
    Null,       \* a part that is not there
    Protocols, Words, Hosts, Paths, Options

VARIABLES
    parts,      \* what the URL was made from
    url         \* the structure vlc_UrlParse fills in

vars == <<parts, url>>

Separators == {":", "/", "@", "[", "]", "?"}
option     == "?"
Escaped    == [token \in {"%40", "%3A"} |-> IF token = "%40" THEN "@" ELSE ":"]
atoi       == [token \in {"554"} |-> 554]

Empty == [psz_protocol |-> Null, psz_username |-> Null, psz_password |-> Null,
          psz_host |-> Null, i_port |-> 0, psz_path |-> Null, psz_option |-> Null]

(* strchr: the place of the first c in s, or 0.                            *)
strchr(s, c) == SelectInSeq(s, LAMBDA token : token = c)

Before(s, i) == SubSeq(s, 1, i - 1)
After(s, i)  == SubSeq(s, i + 1, Len(s))

(* decode_URI, on what lies between separators.                            *)
decode_URI(s) == [i \in DOMAIN s |-> IF s[i] \in DOMAIN Escaped THEN Escaped[s[i]] ELSE s[i]]

---------------------------------------------------------------------------
(* Each step of the parser takes the rest of the URL and what was found.   *)

(* Up to the first ":/", if letters, digits and the like come before it;   *)
(* a second slash is skipped with it.                                      *)
Protocol(s) ==
    LET places == {i \in 1..Len(s) - 1 : s[i] = ":" /\ s[i + 1] = "/"}
        p      == IF places = {} THEN 0 ELSE Min(places)
        slash  == Len(s) > p + 1 /\ s[p + 2] = "/"
    IN  IF p = 0 \/ \E i \in 1..p - 1 : s[i] \in Separators \cup DOMAIN Escaped
        THEN [rest |-> s, url |-> Empty]
        ELSE [rest |-> After(s, IF slash THEN p + 2 ELSE p),
              url  |-> [Empty EXCEPT !.psz_protocol = Before(s, p)]]

(* Mutant: an @ in the path is taken for the one behind a login.           *)
HasLoginMutant(s) == strchr(s, "@") # 0

HasLogin(s) ==
    /\ strchr(s, "@") # 0
    /\ strchr(s, "/") # 0 => strchr(s, "@") < strchr(s, "/")

(* Names are decoded when they have been cut out.                          *)
Login(found) ==
    LET p        == strchr(found.rest, "@")
        login    == Before(found.rest, p)
        colon    == strchr(login, ":")
        username == IF colon = 0 THEN login ELSE Before(login, colon)
        password == IF colon = 0 THEN Null ELSE decode_URI(After(login, colon))
    IN  IF ~HasLogin(found.rest) THEN found
        ELSE [rest |-> After(found.rest, p),
              url  |-> [found.url EXCEPT !.psz_username = decode_URI(username),
                                         !.psz_password = password]]

(* The colon before the port: behind the bracket of an IPv6 address.       *)
PortColon(host) ==
    LET bracket == strchr(host, "]")
        colon   == strchr(After(host, bracket), ":")
    IN  IF strchr(host, "[") # 1 THEN strchr(host, ":")
        ELSE IF bracket = 0 \/ colon = 0 THEN 0
        ELSE bracket + colon

(* What is left begins with the path, if there is one.                     *)
Host(found) ==
    LET p     == strchr(found.rest, "/")
        host  == IF p = 0 THEN found.rest ELSE Before(found.rest, p)
        colon == PortColon(host)
    IN  IF p = 1 THEN found
        ELSE [rest |-> IF p = 0 THEN <<>> ELSE After(found.rest, p - 1),
              url  |-> IF colon = 0
                       THEN [found.url EXCEPT !.psz_host = host]
                       ELSE [found.url EXCEPT !.psz_host = Before(host, colon),
                                              !.i_port = atoi[host[colon + 1]]]]

Path(found) ==
    LET p == strchr(found.rest, option)
    IN  IF found.rest = <<>> THEN found.url
        ELSE IF p = 0 THEN [found.url EXCEPT !.psz_path = found.rest]
        ELSE [found.url EXCEPT !.psz_path = Before(found.rest, p),
                               !.psz_option = After(found.rest, p)]

Parsed(s) == Path(Host(Login(Protocol(s))))

---------------------------------------------------------------------------
(* The callers' side: a URL made of parts, with names escaped.             *)
Escape(s) ==
    [i \in DOMAIN s |-> IF \E e \in DOMAIN Escaped : Escaped[e] = s[i]
                        THEN CHOOSE e \in DOMAIN Escaped : Escaped[e] = s[i]
                        ELSE s[i]]

Digits(n) == CHOOSE d \in DOMAIN atoi : atoi[d] = n

Unless(part, null, tokens) == IF part = null THEN <<>> ELSE tokens

Made(u) ==
    LET login == Unless(u.psz_password, Null, <<":">> \o Escape(u.psz_password))
    IN  Unless(u.psz_protocol, Null, u.psz_protocol \o <<":", "/", "/">>)
        \o Unless(u.psz_username, Null, Escape(u.psz_username) \o login \o <<"@">>)
        \o Unless(u.psz_host, Null, u.psz_host \o Unless(u.i_port, 0, <<":", Digits(u.i_port)>>))
        \o Unless(u.psz_path, Null, u.psz_path)
        \o Unless(u.psz_option, Null, <<option>> \o u.psz_option)

Urls ==
    {u \in [psz_protocol : {Null} \cup Protocols, psz_username : {Null} \cup Words,
            psz_password : {Null} \cup Words, psz_host : {Null} \cup Hosts,
            i_port : {0} \cup Range(atoi), psz_path : {Null} \cup Paths,
            psz_option : {Null} \cup Options] :
        /\ u.psz_username # Null => u.psz_protocol # Null
        /\ u.psz_password # Null => u.psz_username # Null
        /\ u.i_port # 0 => u.psz_host # Null
        /\ u.psz_host = Null => u.psz_path # Null
        /\ u.psz_option # Null => u.psz_path # Null}

Init == parts = Empty /\ url = Empty

(* A caller has a URL; Empty stands for NULL.                              *)
GetUrl == parts = Empty /\ parts' \in Urls /\ UNCHANGED url

vlc_UrlParse ==
    /\ url = Empty
    /\ url' = IF parts = Empty THEN Empty ELSE Parsed(Made(parts))
    /\ UNCHANGED parts

vlc_UrlClean == url # Empty /\ url' = Empty /\ parts' = Empty

Next == GetUrl \/ vlc_UrlParse \/ vlc_UrlClean

Spec == Init /\ [][Next]_vars

---------------------------------------------------------------------------
(* Every URL of the format is cut into the parts it was made from, though  *)
(* names hold the separators, escaped, and a path or an IPv6 address holds *)
(* them as they are.                                                       *)
PartsFound == url \in {Empty, parts}
===========================================================================
