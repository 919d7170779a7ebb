------------------------------ MODULE MCServer ------------------------------
(***************************************************************************)
(* The instance of Server for TLC: one request of each kind that differs.   *)
(***************************************************************************)
EXTENDS Server

Get(version, close) == [Directive |-> "GET", Version |-> version, close |-> close, Host |-> TRUE,
                        body |-> FALSE, Expect |-> "none", answer |-> "stream"]
Post(expect, answer) == [Directive |-> "POST", Version |-> "1.1", close |-> FALSE, Host |-> TRUE,
                         body |-> TRUE, Expect |-> expect, answer |-> answer]

MCRequest == {Get("1.1", FALSE), Get("1.0", FALSE),
              [Get("1.1", TRUE) EXCEPT !.answer = "packet"],
              [Get("1.1", FALSE) EXCEPT !.Directive = "HEAD"],
              [Get("1.1", FALSE) EXCEPT !.Host = FALSE],
              [Post("none", "stream") EXCEPT !.Version = "1.0"],
              Post("100-Continue", "stream"), Post("none", "fault"), Post("other", "stream")}
=============================================================================
