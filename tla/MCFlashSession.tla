---------------------------- MODULE MCFlashSession ----------------------------
\* Two blocks of two buffers of two messages, and three faults.
EXTENDS FlashSession
=============================================================================
