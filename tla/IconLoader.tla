----------------------------- MODULE IconLoader -----------------------------
(***************************************************************************)
(* The icons of tabs and shortcuts (IconLoader.cpp).  A URL is loaded once *)
(* for all who ask for it: the first to ask starts the request, those who  *)
(* come while it is under way wait for the same reply, and what it brought *)
(* is kept, a failure as well as an icon.                                  *)
(*                                                                         *)
(* Whoever asks is known by an id; what its callback does with the icon is *)
(* told by the module that asks (TabBar, ShortcutPanel).                   *)
(***************************************************************************)
CONSTANTS
  IconUrls,   \* the valid URLs clients send as iconUrl
  NoUrl,      \* no iconUrl, or one that is no URL
  NoIcon,     \* a null QIcon
  NotLoaded   \* no entry in the cache

ASSUME IconAssumption ==
  NoUrl \notin IconUrls /\ NoIcon \notin IconUrls /\ NotLoaded \notin IconUrls \cup {NoIcon}

VARIABLES
  cache,    \* IconLoader::cache
  pending   \* IconLoader::pending: who waits for the reply; empty is no entry

loader == <<cache, pending>>

\* The icon a URL leads to is named by the URL.
Icons == IconUrls \cup {NoIcon}

LoaderTypeOK(Owners) ==
  /\ cache \in [IconUrls -> Icons \cup {NotLoaded}]
  /\ pending \in [IconUrls -> SUBSET Owners]

LoaderInit ==
  /\ cache = [url \in IconUrls |-> NotLoaded]
  /\ pending = [url \in IconUrls |-> {}]

MustWait(url) == url \in IconUrls /\ cache[url] = NotLoaded

\* What the callback is given when loadIcon calls it itself, and what the page has
\* until it is called when it does not.
IconAtOnce(url) == IF url \in IconUrls /\ ~MustWait(url) THEN cache[url] ELSE NoIcon

\* Faulty: only the first to ask for a URL is called back.
LoadIconFirstOnly(url, owner) ==
  /\ pending' = [u \in IconUrls |->
       IF u = url /\ MustWait(u) /\ pending[u] = {} THEN {owner} ELSE pending[u]]
  /\ UNCHANGED cache

\* IconLoader::loadIcon
LoadIcon(url, owner) ==
  /\ pending' = [u \in IconUrls |->
       IF u = url /\ MustWait(u) THEN pending[u] \cup {owner} ELSE pending[u]]
  /\ UNCHANGED cache

\* The lambda of QNetworkReply::finished, but for the callbacks: those who waited
\* are no longer pending, and the next to ask is answered from the cache.
Finished(url, icon) ==
  /\ pending[url] # {}
  /\ icon \in {url, NoIcon}
  /\ cache'   = [cache EXCEPT ![url] = icon]
  /\ pending' = [pending EXCEPT ![url] = {}]
=============================================================================
