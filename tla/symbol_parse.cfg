\* The regex symbol parsers on one-line files of up to 5 tokens, over words
\* that include every keyword and a word ending in one ("subclass").
CONSTANTS
    Words = {"function", "class", "const", "interface", "def", "x", "subclass"}
    MaxTokens = 5
    Exts = {"ts", "TS", "tsx", "jsx", "py", "PY", "md"}
SPECIFICATION Spec
INVARIANT TypeOK
INVARIANT DeclarationIndexed
