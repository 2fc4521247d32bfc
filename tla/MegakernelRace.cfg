SPECIFICATION Spec
CONSTANTS
  HIDDEN_SIZE = 2
  INTERMEDIATE_SIZE = 2
  FA_NUM_Q_HEADS = 2
  FA_NUM_KV_HEADS = 1
  DN_NUM_HEADS = 2
  LAYER_TYPE <- MCLayers
  NUM_WARPS = 2
  max_seq_len = 3
  MAX_SEQ = 3
  CHUNK_TOKENS = 1
  DN_CHUNK_C = 1
  MaxBlocks = 4
  Slots = 3
  NUM_BLOCKS = 4
  LM_NUM_BLOCKS = 2
  CoopBlocks = {2, 3}
  Prompts = {1, 2}
  Overrides = {0}
INVARIANT AttentionScratchPrivate
