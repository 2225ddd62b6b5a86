--------------------------- MODULE MCHttpDownload ---------------------------
(* Values for the constants of HttpDownload.                               *)
EXTENDS HttpDownload

Site(range, length, validator, redirect) ==
  [range |-> range, length |-> length, validator |-> validator,
   redirect |-> redirect]

\* Servers as met in practice, except RedirectSites.
MCSites == {Site(TRUE, TRUE, TRUE, 0), Site(TRUE, TRUE, FALSE, 1),
            Site(FALSE, TRUE, TRUE, 0), Site(TRUE, FALSE, TRUE, 0),
            Site(FALSE, FALSE, FALSE, 0)}
MCLen == <<4, 3>>

\* For the liveness run: two servers, one version that is never replaced.
LiveSites == {Site(TRUE, TRUE, TRUE, 0), Site(FALSE, FALSE, FALSE, 0)}
LiveLen == <<3>>

\* A server without ranges that redirects with a body of one byte, which is
\* taken for the length of the file: with it CompletedIsWhole is violated.
RedirectSites == {Site(FALSE, TRUE, TRUE, 1)}
=============================================================================
