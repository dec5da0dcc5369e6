\* Two connect() calls, to names of up to two addresses; a peer that sends two chunks, or
\* one where the name has two addresses.
CONSTANTS
    MaxConnects = 2
    MaxAddresses = 2
    MaxChunks = 2
    FewChunks = 1
SPECIFICATION FairSpec
INVARIANTS ReadsInOrder HandlesAgree
PROPERTIES DataFlows
\* Nothing happens on a socket the program has done with.
CHECK_DEADLOCK FALSE
