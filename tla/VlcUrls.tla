------------------------------ MODULE VlcUrls ------------------------------
(***************************************************************************)
(* The URL parser of the VLC SDK, which is proved about, with its          *)
(* parameters.                                                             *)
(***************************************************************************)
EXTENDS Integers, Sequences

CONSTANTS
    Tokens,     \* what URLs are made of: words, and the separators
    NoPart,     \* a part a URL has not got
    Protocols, Words, Hosts, Paths, Options

VARIABLES
    parts, url

Link == INSTANCE Url WITH Null <- NoPart

(* What the parts of a URL may hold.  Names are escaped, but not their     *)
(* slashes; a host is an IPv6 address in brackets or has no colon; a path  *)
(* begins with a slash and ends at the first question mark.                *)
ASSUME UrlAssumption ==
    /\ Link!Separators \cup DOMAIN Link!Escaped \cup DOMAIN Link!atoi \subseteq Tokens
    /\ NoPart \notin Seq(Tokens)
    /\ Protocols \cup Words \cup Hosts \cup Paths \cup Options \subseteq Seq(Tokens)
    /\ \A s \in Protocols : \A i \in 1..Len(s) :
          s[i] \notin Link!Separators \cup DOMAIN Link!Escaped
    /\ \A s \in Words : \A i \in 1..Len(s) : s[i] \notin {"/"} \cup DOMAIN Link!Escaped
    /\ \A s \in Hosts :
          /\ s # <<>> /\ ~Link!Contains(s, "/") /\ ~Link!Contains(s, "@")
          /\ IF s[1] = "[" THEN \A i \in 1..Len(s) : s[i] = "]" <=> i = Len(s)
             ELSE ~Link!Contains(s, ":")
    /\ \A s \in Paths : s # <<>> /\ s[1] = "/" /\ ~Link!Contains(s, "?")

(* Every URL of the format vlc_UrlParse names is cut into the parts it was *)
(* made from, whatever separators its names and its path hold.             *)
PartsFound == Link!PartsFound
===========================================================================
