------------------------------ MODULE MCLogBuffer ------------------------------
EXTENDS LogBufferSearch

CONSTANTS disk, full, ful, diskFull, diskOk, blank

MCMessage == {diskFull, diskOk, blank}
MCToken == {disk, full, ful}
MCTokensOf == [m \in MCMessage |-> CASE m = diskFull -> {disk, full}
                                     [] m = diskOk   -> {disk}
                                     [] m = blank    -> {}]
MCTime == {1, 2}

\* Nothing, one word, two words, part of a word, and no word at all.
MCQuery == {"", "disk", "disk full", "ful", "!"}
MCQueryTokens == [q \in MCQuery |-> CASE q = "disk"      -> {disk}
                                      [] q = "disk full" -> {disk, full}
                                      [] q = "ful"       -> {ful}
                                      [] OTHER           -> {}]
MCContaining == [q \in MCQuery |-> CASE q = ""          -> MCMessage
                                     [] q = "disk"      -> {diskFull, diskOk}
                                     [] q = "disk full" -> {diskFull}
                                     [] q = "ful"       -> {diskFull}
                                     [] q = "!"         -> {blank}]
================================================================================
