---------------------------- MODULE MCHttpRequest ----------------------------
(* Model-checking instance of HttpRequest. *)
EXTENDS HttpRequest, TLC

\* One request record, with its defaults.
Request(method) ==
    [method |-> method, line |-> "ok", length |-> "missing", number |-> 0, head |-> 2, tail |-> 0,
     stray |-> [at |-> 0, length |-> "missing", number |-> 0],
     safe |-> TRUE, roots |-> <<"absent", "file">>, callback |-> "ok"]

\* GETs over every pair of roots; POSTs with bodies shorter than, equal to and
\* longer than Content-Length, with every kind of refused header, and with the length in
\* the body instead.
MCRequests ==
       {[Request("GET") EXCEPT !.roots = <<a, b>>, !.safe = s, !.head = h] :
            a, b \in {"file", "absent", "broken"}, s \in BOOLEAN, h \in {2, 4, 5}}
  \cup {[Request("POST") EXCEPT !.length = "number", !.number = n, !.tail = t, !.head = h, !.callback = c] :
            n \in -1..4, t \in 0..4, h \in 1..4, c \in {"none", "ok", "fails"}}
  \cup {[Request(m) EXCEPT !.line = l, !.length = k, !.tail = 1] :
            m \in {"GET", "POST", "OTHER"}, l \in {"ok", "bad", "long"}, k \in {"missing", "long"}}
  \cup {[Request("POST") EXCEPT !.stray = [at |-> a, length |-> k, number |-> n], !.tail = 3] :
            a \in 1..2, k \in {"long", "number"}, n \in -1..4}
=============================================================================
