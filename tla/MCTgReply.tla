----------------------------- MODULE MCTgReply -----------------------------
(* Answers for TLC.                                                        *)
EXTENDS TgReply

\* Empty, blank, one bubble, several, blank lines at the edges and between,
\* closed and open code fences, and texts that rendering makes longer.
SomeAnswers ==
  LET p == "plain"  h == "heavy"  f == "fence"  b == "blank" IN
  {<<>>, <<b>>, <<p>>, <<p, p>>, <<b, p, p>>, <<p, b, p>>, <<p, p, p, p>>,
   <<p, f, p, f>>, <<f, p, f>>, <<p, f, p>>, <<h, p>>, <<h, h>>, <<p, h, h>>,
   <<h, b, p, h>>}
=============================================================================
