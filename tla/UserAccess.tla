----------------------------- MODULE UserAccess -----------------------------
(***************************************************************************)
(* Who may use the Redfish service.  bmcweb asks UserMgr::getUserInfo for  *)
(* every session, with the common name of the client certificate; the      *)
(* trusted names are read from CONFIG_DB (REDFISH|certs client_crt_cname)  *)
(* by RedisAdapter::getRedfishClientCnames on each call.  The call runs to *)
(* its end on the main thread; Redis, the connection and the configuration *)
(* change beside it.                                                       *)
(*                                                                         *)
(* A text is a sequence of characters; the configured list is the sequence *)
(* of the texts between its commas.                                        *)
(*                                                                         *)
(* A definition whose name ends in _ is a faulty variant of the one after  *)
(* it: the property that notices the fault is named with it.               *)
(***************************************************************************)
EXTENDS Naturals, Sequences, SequencesExt

CONSTANTS
  Char,         (* characters                                                *)
  CommonName,   (* common names of client certificates                       *)
  Policy,       (* values of client_crt_cname; <<>> is a field not set       *)
  MaxChanges    (* bound: changes of the policy, of Redis, of the connection *)

Text == Seq(Char)

ASSUME UserAssumption ==
  /\ {"*", "."} \subseteq Char
  /\ CommonName \subseteq Text
  /\ Policy \subseteq Seq(Text)
  /\ MaxChanges \in Nat

VARIABLES
  policy,       (* client_crt_cname in CONFIG_DB                             *)
  server,       (* Redis: "up", "down", "refusing" (answers with errors)     *)
  context,      (* configDbContext_: "none", "opening", "open"               *)
  alive,        (* the context is connected to the running Redis             *)
  call,         (* <<name>> while GetUserInfo(name) runs, <<>> otherwise     *)
  answer,       (* the last answer: "granted", "refused" or "error"         *)
  witnessed,    (* history: since the call began, a policy that could have
                   been read trusted its name                                *)
  undisturbed,  (* history: since before the call nothing failed and its name
                   was trusted                                               *)
  refused,      (* history: undisturbed calls refused since the last failure *)
  changes       (* bound: changes so far                                     *)

redisVars == <<policy, server>>
historyVars == <<witnessed, undisturbed, refused>>
vars == <<redisVars, context, alive, call, answer, historyVars, changes>>

-----------------------------------------------------------------------------
(* trim(): a text without the blanks around it. *)
Blank == {" ", "\n"}
trim(text) ==
  LET Visible == {i \in DOMAIN text : text[i] \notin Blank}
  IN IF Visible = {} THEN <<>> ELSE SubSeq(text, Min(Visible), Max(Visible))

(* commonNameMatches().  Faulty: a wildcard that also matches an empty label
   (GrantsFollowPolicy). *)
commonNameMatchesEmptyLabel_(commonName, entry) ==
  IF IsPrefix(<<"*", ".">>, entry)
    THEN Len(entry) >= 3 /\ IsSuffix(Tail(entry), commonName)
    ELSE ~IsPrefix(<<"*">>, entry) /\ commonName = entry

commonNameMatches(commonName, entry) ==
  IF IsPrefix(<<"*", ".">>, entry)
    THEN /\ Len(entry) >= 3
         /\ Len(commonName) > Len(entry) - 1
         /\ IsSuffix(Tail(entry), commonName)
    ELSE ~IsPrefix(<<"*">>, entry) /\ commonName = entry

(* isCommonNameTrusted() for a list that was read; blank entries are skipped,
   so that a blank list trusts nobody. *)
isCommonNameTrusted(commonName, configured) ==
  \E i \in DOMAIN configured :
    /\ trim(configured[i]) # <<>>
    /\ commonNameMatches(commonName, trim(configured[i]))

(* What the comment of commonNameMatches() promises: a plain entry names one
   client, *.domain all the names below that domain. *)
Names(entry, commonName) ==
  \/ entry = commonName /\ entry[1] # "*"
  \/ \E n \in 1..(Len(commonName) - 2) :
       /\ commonName[n + 1] = "."
       /\ entry = <<"*">> \o SubSeq(commonName, n + 1, Len(commonName))

Trusts(configured, commonName) ==
  \E i \in DOMAIN configured :
    /\ trim(configured[i]) # <<>>
    /\ Names(trim(configured[i]), commonName)

-----------------------------------------------------------------------------
(* RedisAdapter::connect() ran at startup, with or without success. *)
Init ==
  /\ policy \in Policy
  /\ server \in {"up", "down"}
  /\ context \in {"none", "open"}
  /\ alive = (context = "open" /\ server = "up")
  /\ call = <<>>
  /\ answer = "refused"
  /\ witnessed = FALSE /\ undisturbed = FALSE /\ refused = 0
  /\ changes = 0

(* GetUserInfo returns: the answer to bmcweb. *)
Answer(granted) ==
  /\ answer' = IF granted THEN "granted" ELSE "refused"
  /\ call' = <<>>
  /\ refused' = IF undisturbed /\ ~granted THEN refused + 1 ELSE refused
  /\ UNCHANGED <<redisVars, witnessed, undisturbed, changes>>

(* bmcweb calls GetUserInfo; an empty name is answered with an error. *)
GetUserInfo(name) ==
  /\ call = <<>> /\ name # <<>>
  /\ call' = <<name>>
  /\ witnessed' = (server = "up" /\ Trusts(policy, name))
  /\ undisturbed' = (server = "up" /\ Trusts(policy, name))
  /\ UNCHANGED <<redisVars, context, alive, answer, refused, changes>>

GetUserInfoEmpty ==
  /\ call = <<>> /\ <<>> \in CommonName
  /\ answer' = "error"
  /\ UNCHANGED <<redisVars, context, alive, call, historyVars, changes>>

(* connectToDb(), first half: TCP, then the Unix sockets. *)
Connect ==
  /\ call # <<>> /\ context = "none"
  /\ IF server = "down"
       THEN /\ Answer(FALSE)
            /\ UNCHANGED <<context, alive>>
       ELSE /\ context' = "opening" /\ alive' = TRUE
            /\ UNCHANGED <<redisVars, call, answer, historyVars, changes>>

(* connectToDb(), second half: SELECT.  The context is freed on an error.
   Faulty: it is not reset (UserTypeOK). *)
SelectFails ==
  /\ call # <<>> /\ context = "opening"
  /\ ~alive \/ server = "refusing"
  /\ context' = "none" /\ alive' = FALSE
  /\ Answer(FALSE)

SelectSucceeds_ ==
  /\ call # <<>> /\ context = "opening"
  /\ alive
  /\ context' = "none"
  /\ UNCHANGED <<redisVars, alive, call, answer, historyVars, changes>>

SelectSucceeds ==
  /\ call # <<>> /\ context = "opening"
  /\ alive
  /\ context' = "open"
  /\ UNCHANGED <<redisVars, alive, call, answer, historyVars, changes>>

(* HGET REDFISH|certs: no reply, an error, or the list.  After an I/O error
   the context is dropped.  Faulty: it is kept (OutageCostsOneCall). *)
ReadBreaks_ ==
  /\ call # <<>> /\ context = "open"
  /\ ~alive
  /\ Answer(FALSE)
  /\ UNCHANGED <<context, alive>>

ReadBreaks ==
  /\ call # <<>> /\ context = "open"
  /\ ~alive
  /\ context' = "none"
  /\ Answer(FALSE)
  /\ UNCHANGED alive

ReadRefused ==
  /\ call # <<>> /\ context = "open"
  /\ alive /\ server = "refusing"
  /\ Answer(FALSE)
  /\ UNCHANGED <<context, alive>>

ReadPolicy ==
  /\ call # <<>> /\ context = "open"
  /\ alive /\ server = "up"
  /\ Answer(isCommonNameTrusted(call[1], policy))
  /\ UNCHANGED <<context, alive>>

-----------------------------------------------------------------------------
(* Outside: the operator changes the list; Redis stops, starts (it answers
   with errors while it loads) and is ready; the connection breaks. *)
Change == changes < MaxChanges /\ changes' = changes + 1

SetPolicy ==
  /\ Change
  /\ policy' \in Policy \ {policy}
  /\ witnessed' = (witnessed \/ (call # <<>> /\ server = "up"
                                   /\ Trusts(policy', call[1])))
  /\ undisturbed' = (undisturbed /\ call # <<>> /\ Trusts(policy', call[1]))
  /\ UNCHANGED <<server, context, alive, call, answer, refused>>

Fails ==
  /\ undisturbed' = FALSE /\ refused' = 0
  /\ UNCHANGED <<policy, context, call, answer>>

ServerStops ==
  /\ Change
  /\ server # "down" /\ server' = "down"
  /\ alive' = FALSE
  /\ Fails /\ UNCHANGED witnessed

ServerStarts ==
  /\ Change
  /\ server = "down" /\ server' \in {"up", "refusing"}
  /\ witnessed' = (witnessed \/ (call # <<>> /\ server' = "up"
                                   /\ Trusts(policy, call[1])))
  /\ Fails /\ UNCHANGED alive

ServerReady ==
  /\ Change
  /\ server = "refusing" /\ server' = "up"
  /\ witnessed' = (witnessed \/ (call # <<>> /\ Trusts(policy, call[1])))
  /\ Fails /\ UNCHANGED alive

ConnectionBreaks ==
  /\ Change
  /\ alive /\ alive' = FALSE
  /\ Fails /\ UNCHANGED <<server, witnessed>>

Next ==
  \/ \E name \in CommonName : GetUserInfo(name)
  \/ GetUserInfoEmpty
  \/ Connect \/ SelectFails \/ SelectSucceeds
  \/ ReadBreaks \/ ReadRefused \/ ReadPolicy
  \/ SetPolicy
  \/ ServerStops \/ ServerStarts \/ ServerReady \/ ConnectionBreaks

Spec == Init /\ [][Next]_vars

-----------------------------------------------------------------------------
(* Types; a connection is half open only inside a call, and only a context can
   be connected. *)
UserTypeOK ==
  /\ policy \in Policy
  /\ server \in {"up", "down", "refusing"}
  /\ context \in {"none", "opening", "open"}
  /\ alive \in BOOLEAN /\ witnessed \in BOOLEAN /\ undisturbed \in BOOLEAN
  /\ call \in {<<>>} \cup {<<name>> : name \in CommonName \ {<<>>}}
  /\ answer \in {"granted", "refused", "error"}
  /\ refused \in Nat /\ changes \in 0..MaxChanges
  /\ context = "opening" => call # <<>>
  /\ alive => context # "none" /\ server # "down"

(* A client is let in only if, at some moment of its call, Redis would have
   answered with a list that names it: a name that was removed is refused from
   the next call on, nothing is remembered across an outage, and what cannot be
   read lets nobody in. *)
GrantsFollowPolicy ==
  [][call # <<>> /\ call' = <<>> /\ answer' = "granted" => witnessed]_vars

(* After an outage at most one trusted client is turned away: the call that
   finds the broken connection drops it, the next one connects again. *)
OutageCostsOneCall == refused <= 1
=============================================================================
