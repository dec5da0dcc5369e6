---------------------------- MODULE MCHttpServer ----------------------------
EXTENDS HttpServer

TwoEach == [c \in Conns |-> 2]

\* Half-open connections or not; one request per connection or no limit.
SomeSettings == [halfOpen : BOOLEAN, max : {0}] \cup [halfOpen : {FALSE}, max : {1}]
=============================================================================
